---- MODULE Spec2Model ----
(***************************************************************************)
(* FormAgent: the markdown-table pipeline of the Excel assistant.          *)
(*                                                                         *)
(* Texts are TLA+ strings handled character by character (Len, SubSeq,     *)
(* \o), so that strip, split, substring tests and the regular expressions  *)
(* of the Python source are computed as the source computes them.          *)
(***************************************************************************)
EXTENDS Integers, Sequences, FiniteSets, TLC

VARIABLES
    \* ---- merge_tables called on its own (doc_handlers/ocr.py)
    mt_pc,          \* "idle" | "start" | "done"
    mt_existing,    \* argument existing_table
    mt_new,         \* argument new_table
    mt_completion,  \* what the completion call did: NotCalled, or a record
    mt_result,      \* the record merge_tables produced, or NoResult
    \* ---- update_draft_form over edit cycles (form/update.py)
    ud_form,        \* the draft form: a sequence of fields [type, value]
    ud_before,      \* the draft form as it was when the last call began
    ud_message,     \* the message of the last call
    ud_result,      \* what the last call printed: rows counted, warning
    ud_edits,        \* calls made so far
    \* ---- one table encoded and decoded (doc_handlers/excel.py)
    cd_pc,          \* "idle" | "table" | "text"
    cd_table,       \* the table to encode, or NoTable when a text is given
    cd_text,        \* the markdown table text
    cd_df,          \* the outcome of markdown_to_df, or NotParsed
    cd_excel,       \* the workbook markdown_to_excel wrote, or NotWritten
    \* ---- the Streamlit script of the application (main.py)
    session_state,        \* st.session_state, the keys the script reads
    main_form_uploader,   \* the file in the sidebar uploader, or NoFile
    chat_image_uploader,  \* the key of the image in the image uploader, or ""
    merge_button_shown,   \* the last script run rendered the merge button
    notice,               \* what the merge handler displayed in the last run
    rerun_pending,        \* the last run ended in st.rerun()
    merge_log,            \* the merge handler of the last run: its inputs
    user_actions,         \* widget events so far
    ocr_runs,             \* OCR extractions run for the image in the uploader
    \* ---- one Document segmented (excel_helpers.py, excel.py)
    sg_doc,         \* the Document text
    sg_done,        \* which of "segment", "rejoin", "excel" have run
    sg_sheets,      \* extract_excel_sheet_content(sg_doc)
    sg_again,       \* the sheets of the Document written again from sg_sheets
    sg_excel,       \* markdown_to_excel(sg_doc)
    \* ---- one call of get_prefilled_fields_status (status.py)
    st_previous,    \* the fields of previous_form
    st_current,     \* the fields of current_form
    st_status,      \* the dictionary returned, or NoStatus
    \* ---- threads calling get_reader (doc_handlers/ocr.py)
    reader,         \* the global _reader: None, or the instance stored
    reader_lock,    \* the thread holding _reader_lock, or Unlocked
    rd_pc,          \* where each thread stands in get_reader
    rd_ret,         \* the value the last call of each thread returned, if any
    rd_failed,      \* the construction of the thread's current call failed
    rd_built,       \* instances constructed so far
    rd_calls,       \* calls begun so far
    rd_returned,    \* every instance a call has returned
    rd_unlocked     \* a construction began without the lock held

varsMerge == <<mt_pc, mt_existing, mt_new, mt_completion, mt_result>>

varsUpdate == <<ud_form, ud_before, ud_message, ud_result, ud_edits>>

varsCodec == <<cd_pc, cd_table, cd_text, cd_df, cd_excel>>

varsApp == <<session_state, main_form_uploader, chat_image_uploader,
             merge_button_shown, notice, rerun_pending, merge_log, user_actions,
             ocr_runs>>

varsSegment == <<sg_doc, sg_done, sg_sheets, sg_again, sg_excel>>

varsStatus == <<st_previous, st_current, st_status>>

varsReader == <<reader, reader_lock, rd_pc, rd_ret, rd_failed, rd_built,
                rd_calls, rd_returned, rd_unlocked>>

vars == <<varsMerge, varsUpdate, varsCodec, varsApp, varsSegment, varsStatus,
          varsReader>>

OthersOfMerge == <<varsUpdate, varsCodec, varsApp, varsSegment, varsStatus, varsReader>>

OthersOfUpdate == <<varsMerge, varsCodec, varsApp, varsSegment, varsStatus, varsReader>>

OthersOfCodec == <<varsMerge, varsUpdate, varsApp, varsSegment, varsStatus, varsReader>>

OthersOfApp == <<varsMerge, varsUpdate, varsCodec, varsSegment, varsStatus, varsReader>>

OthersOfSegment == <<varsMerge, varsUpdate, varsCodec, varsApp, varsStatus, varsReader>>

OthersOfReader == <<varsMerge, varsUpdate, varsCodec, varsApp, varsSegment,
                    varsStatus>>

OthersOfStatus == <<varsMerge, varsUpdate, varsCodec, varsApp, varsSegment, varsReader>>

----------------------------------------------------------------------------
(* Bounds of the model *)

\* Longest completion text, counted in fragments of Fragments.
MaxFrags == 4

\* Calls of update_draft_form in one run of the edit cycle.
MaxEdits == 2

\* the most rows of a table that is encoded
MaxRows == 2

\* the most widget events (uploads, clicks, chat inputs) of one session
MaxActions == 4

\* the most lines of a Document that is segmented
MaxLines == 4

\* the most fields of a form whose status is taken
MaxFields == 3

\* the OCR extractions counted for one image; the count stops there
MaxOcrRuns == 2

\* threads that call get_reader
MaxThreads == 2

\* calls of get_reader begun in one run
MaxCalls == 4

----------------------------------------------------------------------------
(* Python str primitives *)

SetMin(S) == CHOOSE m \in S : \A k \in S : m <= k

SetMax(S) == CHOOSE m \in S : \A k \in S : m >= k

\* s[a-1:b] of Python: the characters a..b (1-based), cut to the text
Slice(s, a, b) ==
    LET lo == IF a < 1 THEN 1 ELSE a
        hi == IF b > Len(s) THEN Len(s) ELSE b
    IN  IF lo > hi THEN "" ELSE SubSeq(s, lo, hi)

\* s[i] (1-based)
At(s, i) == Slice(s, i, i)

\* list[a-1:b], for a sequence that is not a string
SubSeqClamp(q, a, b) ==
    IF a > b \/ a > Len(q) THEN <<>>
    ELSE SubSeq(q, IF a < 1 THEN 1 ELSE a, IF b > Len(q) THEN Len(q) ELSE b)

RECURSIVE FindFrom(_, _, _)
\* s.find(p, from-1) + 1: the first position i >= from at which p occurs in s,
\* 0 when there is none
FindFrom(s, p, from) ==
    IF from + Len(p) - 1 > Len(s) THEN 0
    ELSE IF SubSeq(s, from, from + Len(p) - 1) = p THEN from
    ELSE FindFrom(s, p, from + 1)

\* p in s
Contains(s, p) == FindFrom(s, p, 1) # 0

\* s.startswith(p)
StartsWith(s, p) == Slice(s, 1, Len(p)) = p

\* the characters str.strip() removes
IsSpace(c) == c \in {" ", "\n", "\t", "\r"}

RECURSIVE FirstInk(_, _)
\* the first position >= i of a character that is not whitespace
FirstInk(s, i) ==
    IF i > Len(s) THEN i ELSE IF IsSpace(At(s, i)) THEN FirstInk(s, i + 1) ELSE i

RECURSIVE LastInk(_, _)
\* the last position <= i of a character that is not whitespace
LastInk(s, i) ==
    IF i < 1 THEN i ELSE IF IsSpace(At(s, i)) THEN LastInk(s, i - 1) ELSE i

\* s.strip()
Strip(s) == Slice(s, FirstInk(s, 1), LastInk(s, Len(s)))

RECURSIVE SplitFrom(_, _, _)
SplitFrom(s, sep, i) ==
    LET j == FindFrom(s, sep, i)
    IN  IF j = 0 THEN <<Slice(s, i, Len(s))>>
        ELSE <<Slice(s, i, j - 1)>> \o SplitFrom(s, sep, j + Len(sep))

\* s.split(sep)
Split(s, sep) == SplitFrom(s, sep, 1)

RECURSIVE Join(_, _)
\* sep.join(ls)
Join(ls, sep) ==
    IF Len(ls) = 0 THEN ""
    ELSE IF Len(ls) = 1 THEN ls[1]
    ELSE ls[1] \o sep \o Join(Tail(ls), sep)

RECURSIVE Concat(_)
\* "".join(ls)
Concat(ls) == IF Len(ls) = 0 THEN "" ELSE ls[1] \o Concat(Tail(ls))

\* the test with the strip() forgotten
IsBlank_no_strip(s) == s = ""

\* not s or s.strip() == ''
IsBlank(s) == s = "" \/ Strip(s) = ""

\* s.replace(old, new)
Replace(s, old, new) == Join(Split(s, old), new)

\* the lines of ls that hold a pipe: sum(1 for line in ls if "|" in line)
PipeLineCount(ls) == Cardinality({i \in 1..Len(ls) : Contains(ls[i], "|")})

Digit(d) == At("0123456789", d + 1)

RECURSIVE IntStr(_)
\* str(n) for n >= 0
IntStr(n) == IF n < 10 THEN Digit(n) ELSE IntStr(n \div 10) \o Digit(n % 10)

----------------------------------------------------------------------------
(* extract_excel_sheet_content (chat_agent/excel_helpers.py): a dict is a
   sequence of entries [name, content] in insertion order *)

SheetMarker == "## Sheet:"

DictHas(d, k) == \E i \in 1..Len(d) : d[i].name = k

\* d[k] = v: a known key keeps its place and takes the new value
DictSet(d, k, v) ==
    IF DictHas(d, k)
    THEN [i \in 1..Len(d) |-> IF d[i].name = k THEN [name |-> k, content |-> v] ELSE d[i]]
    ELSE Append(d, [name |-> k, content |-> v])

DictGet(d, k) == (CHOOSE e \in {d[i] : i \in 1..Len(d)} : e.name = k).content

DictKeys(d) == [i \in 1..Len(d) |-> d[i].name]

\* lines 88-91 and 102-105: store the section read so far unless it is blank
store_section(sheets, current_sheet, sheet_content) ==
    LET content == Join(sheet_content, "\n")
    IN  IF Strip(content) # "" THEN DictSet(sheets, current_sheet, content) ELSE sheets

RECURSIVE segment_lines(_, _, _, _, _)
\* lines 85-105: the loop over the lines and the store of the last section;
\* current_sheet = "" stands for None
segment_lines(lines, i, sheets, current_sheet, sheet_content) ==
    IF i > Len(lines)
    THEN IF current_sheet # "" /\ Len(sheet_content) > 0
         THEN store_section(sheets, current_sheet, sheet_content)
         ELSE sheets
    ELSE IF StartsWith(lines[i], SheetMarker)
    THEN LET saved == IF current_sheet # ""
                      THEN store_section(sheets, current_sheet, sheet_content)
                      ELSE sheets
             named == Strip(Replace(lines[i], SheetMarker, ""))
             next  == IF named = "" THEN "Sheet" \o IntStr(Len(saved) + 1) ELSE named
         IN  segment_lines(lines, i + 1, saved, next, <<>>)
    ELSE IF current_sheet # ""
    THEN segment_lines(lines, i + 1, sheets, current_sheet, Append(sheet_content, lines[i]))
    ELSE segment_lines(lines, i + 1, sheets, current_sheet, sheet_content)

\* extract_excel_sheet_content(markdown_content)
extract_excel_sheet_content(markdown_content) ==
    IF markdown_content = "" THEN <<>>
    ELSE IF ~Contains(markdown_content, SheetMarker) /\ Contains(markdown_content, "|")
    THEN <<[name |-> "Sheet1", content |-> Strip(markdown_content)]>>
    ELSE LET sheets == segment_lines(Split(markdown_content, "\n"), 1, <<>>, "", <<>>)
         IN  IF Len(sheets) = 0 /\ Contains(markdown_content, "|")
             THEN <<[name |-> "Sheet1", content |-> Strip(markdown_content)]>>
             ELSE sheets

----------------------------------------------------------------------------
(* extract_form_content and update_draft_form (form/update.py) *)

\* re.search(r'<form>(.*?)</form>', message, re.DOTALL): group 1, or no match
form_match(message) ==
    LET i == FindFrom(message, "<form>", 1)
        j == IF i = 0 THEN 0 ELSE FindFrom(message, "</form>", i + 6)
    IN  IF j = 0 THEN [found |-> FALSE, group |-> ""]
        ELSE [found |-> TRUE, group |-> Slice(message, i + 6, j - 1)]

\* lines 18-40: a table written straight into the message
bare_table(message) ==
    IF Contains(message, "|") /\ Contains(message, "---")
    THEN LET lines == Split(Strip(message), "\n")
             withPipe == {i \in 1..Len(lines) : Contains(lines[i], "|")}
         IN  IF withPipe = {} THEN ""
             ELSE LET table_start == SetMin(withPipe)
                      \* 0-based i > table_start + 2 is 1-based k > table_start + 2
                      ends == {k \in (table_start + 1)..Len(lines) :
                                  ~Contains(lines[k], "|") /\ k > table_start + 2}
                      table_end == IF ends = {} THEN Len(lines) ELSE SetMin(ends) - 1
                      table_content == Join(SubSeq(lines, table_start, table_end), "\n")
                  IN  IF Contains(table_content, "|") /\ Len(table_content) > 10
                      THEN table_content ELSE ""
    ELSE ""

\* extract_form_content(message)
extract_form_content(message) ==
    LET m == form_match(message)
    IN  IF m.found THEN Strip(m.group) ELSE bare_table(message)

\* lines 73-77: the index of the first markdown field, 0 for None
markdown_field_index(draft_form) ==
    LET idx == {i \in 1..Len(draft_form) : draft_form[i].type = "markdown"}
    IN  IF idx = {} THEN 0 ELSE SetMin(idx)

\* the value of the first markdown field, "" when there is none
markdown_value(draft_form) ==
    IF markdown_field_index(draft_form) = 0 THEN ""
    ELSE draft_form[markdown_field_index(draft_form)].value

\* line 93 with <= written for <
shrink_test_mut(new_rows, original_rows) == new_rows <= original_rows

\* line 93: the test that prints the data-loss warning
shrink_test(new_rows, original_rows) == new_rows < original_rows

\* line 97 skipped when the warning fired
store_content_mut(draft_form, idx, form_content, warning) ==
    IF warning THEN draft_form
    ELSE [draft_form EXCEPT ![idx].value = form_content]

\* line 97: the field takes the new content, warning or not
store_content(draft_form, idx, form_content, warning) ==
    [draft_form EXCEPT ![idx].value = form_content]

\* update_draft_form(draft_form, message): the form returned (the same object,
\* changed in place) and what was printed
update_draft_form(draft_form, message) ==
    LET form_content == extract_form_content(message)
        idx == markdown_field_index(draft_form)
        unchanged == [form |-> draft_form, updated |-> FALSE, checked |-> FALSE,
                      warning |-> FALSE, original_rows |-> 0, new_rows |-> 0]
    IN  IF form_content = "" \/ ~Contains(form_content, "|") THEN unchanged
        ELSE IF idx = 0 THEN unchanged
        ELSE LET original_content == draft_form[idx].value
                 checked == original_content # ""
                 original_rows == IF checked
                                  THEN PipeLineCount(Split(Strip(original_content), "\n"))
                                  ELSE 0
                 new_rows == IF checked
                             THEN PipeLineCount(Split(Strip(form_content), "\n"))
                             ELSE 0
                 warning == checked /\ shrink_test(new_rows, original_rows)
             IN  [form |-> store_content(draft_form, idx, form_content, warning),
                  updated |-> TRUE, checked |-> checked, warning |-> warning,
                  original_rows |-> original_rows, new_rows |-> new_rows]

----------------------------------------------------------------------------
(* excel_to_markdown (doc_handlers/excel.py). A table (the DataFrame of one
   sheet) is [columns, rows]; a cell is a number, a string or NaN. *)

Num(n) == [t |-> "num", v |-> "", n |-> n]

Str(v) == [t |-> "str", v |-> v, n |-> 0]

NaN == [t |-> "nan", v |-> "", n |-> 0]

\* the text tabulate writes for a cell
cell_text(c) == IF c.t = "num" THEN IntStr(c.n) ELSE IF c.t = "nan" THEN "nan" ELSE c.v

RECURSIVE Repeat(_, _)
\* ch * n
Repeat(ch, n) == IF n <= 0 THEN "" ELSE ch \o Repeat(ch, n - 1)

SeqMax(ns) == SetMax({ns[i] : i \in 1..Len(ns)} \cup {0})

\* tabulate: a column of numbers only is right-aligned, any other left-aligned
numeric_column(tbl, j) ==
    Len(tbl.rows) > 0 /\ \A r \in 1..Len(tbl.rows) : tbl.rows[r][j].t = "num"

\* tabulate: the header counts with MIN_PADDING = 2 more than its length
column_width(tbl, j) ==
    SeqMax(<<Len(tbl.columns[j]) + 2>>
           \o [r \in 1..Len(tbl.rows) |-> Len(cell_text(tbl.rows[r][j]))])

pad_cell(text, width, right) ==
    IF right THEN Repeat(" ", width - Len(text)) \o text
    ELSE text \o Repeat(" ", width - Len(text))

\* one line of the pipe format: "| c1 | c2 |"
pipe_row(tbl, texts) ==
    "|" \o Concat([j \in 1..Len(tbl.columns) |->
            " " \o pad_cell(texts[j], column_width(tbl, j), numeric_column(tbl, j)) \o " |"])

\* the separator line of the pipe format, with the alignment colons
pipe_separator(tbl) ==
    "|" \o Concat([j \in 1..Len(tbl.columns) |->
            (IF numeric_column(tbl, j)
             THEN Repeat("-", column_width(tbl, j) + 1) \o ":"
             ELSE ":" \o Repeat("-", column_width(tbl, j) + 1)) \o "|"])

\* line 51: df.to_markdown(index=False); a frame without columns and rows
\* (an empty sheet) is written as the empty text
to_markdown(tbl) ==
    IF Len(tbl.columns) = 0 /\ Len(tbl.rows) = 0 THEN ""
    ELSE Join(<<pipe_row(tbl, tbl.columns), pipe_separator(tbl)>>
              \o [r \in 1..Len(tbl.rows) |->
                     pipe_row(tbl, [j \in 1..Len(tbl.columns) |-> cell_text(tbl.rows[r][j])])],
              "\n")

\* lines 48-52: the section of one sheet in the document
sheet_section(sheet_name, markdown_table) ==
    "## Sheet: " \o sheet_name \o "\n\n" \o markdown_table \o "\n\n"

\* line 36: the document returned for a file no engine can read
unreadable_excel ==
    "## Sheet: Error\n\n| Error |\n|-------|\n| Failed to read Excel file. File may be corrupted or in an unsupported format. |\n\n"

\* excel_to_markdown(excel_data): the workbook is the sequence of its sheets
\* [name, table], or is unreadable
excel_to_markdown(workbook) ==
    IF ~workbook.readable THEN unreadable_excel
    ELSE Concat([k \in 1..Len(workbook.sheets) |->
            sheet_section(workbook.sheets[k].name, to_markdown(workbook.sheets[k].table))])

\* parse_excel_form(excel_data): the draft form has the one markdown field
parse_excel_form(workbook) ==
    <<[type |-> "markdown", value |-> excel_to_markdown(workbook)]>>

----------------------------------------------------------------------------
(* pd.read_table(io.StringIO(text), sep='|', skipinitialspace=True, ...) as
   markdown_to_df and markdown_to_excel call it (doc_handlers/excel.py). The
   texts read here hold no quote character, no carriage return, no sign, no
   decimal point and none of the words the reader takes for a missing or a
   boolean value, so a field is a number (digits), a string or empty. *)

\* a local variable: v is computed once and F is applied to its value
Let(v, F(_)) == CHOOSE r \in {F(x) : x \in {v}} : TRUE

RECURSIVE SkipSpaces(_, _)
\* skipinitialspace: the first position of s at or after i that holds neither
\* a space nor a tab
SkipSpaces(s, i) ==
    IF i > Len(s) THEN i
    ELSE IF At(s, i) \in {" ", "\t"} THEN SkipSpaces(s, i + 1) ELSE i

LStrip(s) == Slice(s, SkipSpaces(s, 1), Len(s))

\* the tokenizer skips a line that is empty or holds only spaces and tabs
BlankLine(line) == SkipSpaces(line, 1) > Len(line)

\* the fields of one line: split at the separator, leading spaces dropped
Fields(line) ==
    Let(Split(line, "|"), LAMBDA parts : [j \in 1..Len(parts) |-> LStrip(parts[j])])

RECURSIVE kept_lines(_, _, _)
\* the lines the tokenizer keeps: skiprows counts the lines of the file from
\* 0, blank lines included; blank lines are dropped
kept_lines(raw, i, skiprows) ==
    IF i > Len(raw) THEN <<>>
    ELSE (IF (i - 1) \in skiprows \/ BlankLine(raw[i]) THEN <<>> ELSE <<raw[i]>>)
         \o kept_lines(raw, i + 1, skiprows)

\* the kept lines of the text, each as its fields
tokens(text, skiprows) ==
    Let(Split(text, "\n"), LAMBDA raw :
    Let(kept_lines(raw, 1, skiprows), LAMBDA lines :
        [i \in 1..Len(lines) |-> Fields(lines[i])]))

RECURSIVE pad_lines(_, _, _)
\* tokenizer end_line: a data line with more fields than the line before it is
\* the error 'Expected n fields in line m, saw k'; one with fewer is filled up
\* with empty fields
pad_lines(rows, k, width) ==
    IF k > Len(rows) THEN [err |-> FALSE, rows |-> <<>>]
    ELSE IF Len(rows[k]) > width THEN [err |-> TRUE, rows |-> <<>>]
    ELSE Let(pad_lines(rows, k + 1, width), LAMBDA rest :
         [err |-> rest.err,
          rows |-> <<rows[k] \o [j \in 1..(width - Len(rows[k])) |-> ""]>> \o rest.rows])

\* a field the int parser accepts: digits, spaces around them allowed
IsIntText(s) ==
    Let(Strip(s), LAMBDA t :
        t # "" /\ \A i \in 1..Len(t) : Contains("0123456789", At(t, i)))

DigitValue(c) == FindFrom("0123456789", c, 1) - 1

RECURSIVE DigitsValue(_)
DigitsValue(t) ==
    IF Len(t) = 0 THEN 0
    ELSE 10 * DigitsValue(Slice(t, 1, Len(t) - 1)) + DigitValue(At(t, Len(t)))

IntValue(s) == DigitsValue(Strip(s))

\* type inference of one column: a column whose fields are all numbers (or
\* empty) is numeric; any other keeps its fields as strings; an empty field is
\* a missing value in both
infer_column(fields) ==
    Let(\A i \in 1..Len(fields) : fields[i] = "" \/ IsIntText(fields[i]),
        LAMBDA numeric :
        [i \in 1..Len(fields) |->
            IF fields[i] = "" THEN NaN
            ELSE IF numeric THEN Num(IntValue(fields[i]))
            ELSE Str(fields[i])])

\* the cells of the frame, row by row, from the padded fields; the first
\* 'lead' fields of each row are the implicit index
infer_rows(rows, lead, ncols) ==
    Let([j \in 1..ncols |-> infer_column([r \in 1..Len(rows) |-> rows[r][lead + j]])],
        LAMBDA cols : [r \in 1..Len(rows) |-> [j \in 1..ncols |-> cols[j][r]]])

\* the names of the columns from the header line: an empty name becomes
\* 'Unnamed: j', a repeated one gets a running number
header_names(fields) ==
    Let([j \in 1..Len(fields) |->
            IF fields[j] = "" THEN "Unnamed: " \o IntStr(j - 1) ELSE fields[j]],
        LAMBDA named :
        [j \in 1..Len(named) |->
            IF \E k \in 1..(j - 1) : named[k] = named[j]
            THEN named[j] \o "." \o IntStr(Cardinality({k \in 1..(j - 1) : named[k] = named[j]}))
            ELSE named[j]])

ReadError(msg) == [err |-> TRUE, msg |-> msg, columns |-> <<>>, rows |-> <<>>,
                   default_names |-> FALSE]

\* the frame of the tokenized lines
frame_of_tokens(toks, has_header) ==
    IF Len(toks) = 0 THEN ReadError("No columns to parse from file")
    ELSE
    LET data   == IF has_header THEN Tail(toks) ELSE toks
        hcount == IF has_header THEN Len(toks[1]) ELSE 0
        width  == IF Len(data) = 0 THEN hcount
                  ELSE IF Len(data[1]) > hcount THEN Len(data[1]) ELSE hcount
        ncols  == IF has_header THEN hcount ELSE width
    IN  Let(pad_lines(data, 1, width), LAMBDA padded :
            IF padded.err THEN ReadError("Error tokenizing data")
            ELSE [err |-> FALSE, msg |-> "",
                  columns |-> IF has_header THEN header_names(toks[1])
                              ELSE [j \in 1..ncols |-> IntStr(j - 1)],
                  rows |-> infer_rows(padded.rows, width - ncols, ncols),
                  default_names |-> ~has_header])

\* read_table: has_header is header=0 (the default), otherwise header=None
read_table(text, has_header, skiprows) ==
    Let(tokens(text, skiprows), LAMBDA toks : frame_of_tokens(toks, has_header))

\* df.iloc[:, 1:-1]: the first and the last column are dropped
iloc_inner(df) ==
    Let(df, LAMBDA d :
        [d EXCEPT !.columns = SubSeqClamp(d.columns, 2, Len(d.columns) - 1),
                  !.rows = [r \in 1..Len(d.rows) |->
                                SubSeqClamp(d.rows[r], 2, Len(d.columns) - 1)]])

----------------------------------------------------------------------------
(* markdown_to_df and markdown_to_excel (doc_handlers/excel.py) *)

AlnumChars == "abcdefghijklmnopqrstuvwxyzABCDEFGHIJKLMNOPQRSTUVWXYZ0123456789"

\* c.isalnum() for one character of the texts read here
IsAlnum(c) == Contains(AlnumChars, c)

RECURSIVE FirstNot(_, _, _)
FirstNot(s, ch, i) ==
    IF i > Len(s) THEN i ELSE IF At(s, i) = ch THEN FirstNot(s, ch, i + 1) ELSE i

RECURSIVE LastNot(_, _, _)
LastNot(s, ch, i) ==
    IF i < 1 THEN i ELSE IF At(s, i) = ch THEN LastNot(s, ch, i - 1) ELSE i

\* s.strip(ch) for one character ch
StripChar(s, ch) == Slice(s, FirstNot(s, ch, 1), LastNot(s, ch, Len(s)))

\* lines 293-296 and 106-109: the test of the second line
separator_line(second_line) ==
    /\ Contains(second_line, "---") \/ Contains(second_line, ":--")
    /\ ~\E i \in 1..Len(second_line) :
            /\ ~Contains("|:-", At(second_line, i))
            /\ IsAlnum(At(second_line, i))

\* lines 291-296 and 104-109
is_markdown_table(lines) == Len(lines) >= 3 /\ separator_line(lines[2])

\* lines 316-317 and 130-131: the header cells of line 0
header_cells(line) ==
    Let(Split(StripChar(line, "|"), "|"), LAMBDA parts :
        [j \in 1..Len(parts) |-> Strip(parts[j])])

\* df.empty
df_empty(df) == Len(df.columns) = 0 \/ Len(df.rows) = 0

\* lines 320-329 and 134-143: the data lines read without a header
data_frame(lines) ==
    iloc_inner(read_table(Join(SubSeqClamp(lines, 3, Len(lines)), "\n"), FALSE, {}))

\* df_data.columns = header_row[1:len(df_data.columns)+1]; pandas refuses a
\* list of names that is not as long as the frame is wide
set_columns(df, names) ==
    IF Len(names) # Len(df.columns) THEN ReadError("Length mismatch")
    ELSE [df EXCEPT !.columns = names, !.default_names = FALSE]

\* lines 314-337: the manual extraction of markdown_to_df
manual_df(lines) ==
    Let(header_cells(lines[1]), LAMBDA header_row :
    Let(data_frame(lines), LAMBDA df_data :
        IF df_data.err THEN df_data
        ELSE IF ~df_empty(df_data) /\ Len(header_row) >= Len(df_data.columns)
             THEN set_columns(df_data, SubSeqClamp(header_row, 2, Len(df_data.columns) + 1))
             ELSE ReadError("header row and data columns do not match")))

\* lines 299-312 and 113-126: the first extraction; a reader error or default
\* (numbered) column names lead to the manual extraction
first_attempt(markdown_table) == iloc_inner(read_table(markdown_table, TRUE, {1}))

first_attempt_failed(df) ==
    df.err \/ df.default_names \/ Len(df.columns) = 0

HasDuplicates(q) == \E i, j \in 1..Len(q) : i < j /\ q[i] = q[j]

\* pd.to_numeric(.., errors='coerce') on one cell
to_numeric(c) == IF c.t = "str" /\ IsIntText(c.v) THEN Num(IntValue(c.v)) ELSE c

\* lines 347-352: every cell that converts to a number is replaced by the
\* number
convert_numeric(df) ==
    [df EXCEPT !.rows = [r \in 1..Len(df.rows) |->
                            [j \in 1..Len(df.columns) |-> to_numeric(df.rows[r][j])]]]

\* the outcome of markdown_to_df: an exception that reaches the caller, the
\* one-cell frame of the except branch (its cell holds the message, written
\* here without its constant prefix), or the parsed frame
Raised(msg) == [raised |-> TRUE, error |-> FALSE, msg |-> msg,
                columns |-> <<>>, rows |-> <<>>]

error_df(msg) == [raised |-> FALSE, error |-> TRUE, msg |-> msg,
                  columns |-> <<"Error">>, rows |-> << <<Str(msg)>> >>]

Returned(df) == [raised |-> FALSE, error |-> FALSE, msg |-> "",
                 columns |-> df.columns, rows |-> df.rows]

\* lines 298-344: the frame read from the text
df_of_lines(markdown_table, lines) ==
    IF is_markdown_table(lines)
    THEN Let(first_attempt(markdown_table), LAMBDA first :
             IF first_attempt_failed(first) THEN manual_df(lines) ELSE first)
    ELSE iloc_inner(read_table(markdown_table, TRUE, {}))

\* markdown_to_df(markdown_table)
markdown_to_df(markdown_table) ==
    IF markdown_table = "" \/ ~Contains(markdown_table, "|")
    THEN Raised("ValueError")
    ELSE
    Let(Split(Strip(markdown_table), "\n"), LAMBDA lines :
        IF Len(lines) < 2 THEN error_df("table too small")
        ELSE Let(df_of_lines(markdown_table, lines), LAMBDA df :
                 IF df.err THEN error_df(df.msg)
                 \* df[col] of a repeated name is a frame, which to_numeric refuses
                 ELSE IF HasDuplicates(df.columns) THEN error_df("TypeError")
                 ELSE Returned(convert_numeric(df))))

\* df.columns = df.iloc[0]: the cells of a row become the column names; the
\* index is an integer index when every cell is a number
row_as_columns(df, row) ==
    [df EXCEPT !.columns = [j \in 1..Len(row) |-> cell_text(row[j])],
               !.default_names = Len(row) > 0 /\ \A j \in 1..Len(row) : row[j].t = "num"]

\* lines 144-157: the second fallback of markdown_to_excel
whole_frame(table_content) ==
    Let(iloc_inner(read_table(table_content, FALSE, {})), LAMBDA df :
        IF df.err \/ Len(df.rows) < 2 THEN df
        ELSE [row_as_columns(df, df.rows[1])
                EXCEPT !.rows = SubSeqClamp(df.rows, 3, Len(df.rows))])

\* lines 127-157: the manual extraction of markdown_to_excel
manual_excel(table_content, lines) ==
    Let(header_cells(lines[1]), LAMBDA header_row :
    Let(data_frame(lines), LAMBDA df_data :
        IF df_data.err THEN df_data
        ELSE IF ~df_empty(df_data) /\ Len(header_row) >= Len(df_data.columns)
             THEN set_columns(df_data, SubSeqClamp(header_row, 2, Len(df_data.columns) + 1))
             ELSE whole_frame(table_content)))

\* lines 158-172: a table that is not standard is read without a header and
\* its first row names the columns
plain_excel(table_content) ==
    Let(iloc_inner(read_table(table_content, FALSE, {})), LAMBDA df :
        IF df.err \/ df_empty(df) THEN df
        ELSE [row_as_columns(df, df.rows[1]) EXCEPT !.rows = Tail(df.rows)])

\* lines 176-181: the lines that can name the columns of a frame with an
\* integer index
header_candidates(lines, n) ==
    {i \in 1..Len(lines) :
        /\ Contains(lines[i], "|") /\ ~Contains(lines[i], "-")
        /\ Len(header_cells(lines[i])) = n}

\* lines 174-181
name_integer_columns(df, lines) ==
    IF ~df.default_names THEN df
    ELSE Let(header_candidates(lines, Len(df.columns)), LAMBDA found :
             IF found = {} THEN df
             ELSE [df EXCEPT !.columns = header_cells(lines[SetMin(found)]),
                             !.default_names = FALSE])

\* lines 187-198: every cell that converts to a number is replaced by the
\* number; the conversion of a column with a repeated name raises inside its
\* own try and is passed over
convert_numeric_excel(df) ==
    [df EXCEPT !.rows = [r \in 1..Len(df.rows) |->
        [j \in 1..Len(df.columns) |->
            IF \E k \in 1..Len(df.columns) : k # j /\ df.columns[k] = df.columns[j]
            THEN df.rows[r][j] ELSE to_numeric(df.rows[r][j])]]]

\* the frame of an empty sheet, written when the conversion raises
EmptyFrame == [err |-> FALSE, msg |-> "", columns |-> <<>>, rows |-> <<>>,
               default_names |-> TRUE]

\* lines 111-172: the frame read from the table text of a sheet
excel_df_of_lines(table_content, lines) ==
    IF is_markdown_table(lines)
    THEN Let(first_attempt(table_content), LAMBDA first :
             IF first_attempt_failed(first) THEN manual_excel(table_content, lines)
             ELSE first)
    ELSE plain_excel(table_content)

\* lines 98-205: the frame written for the table text of one sheet
sheet_frame(table_content) ==
    Let(Split(Strip(table_content), "\n"), LAMBDA lines :
        IF Len(lines) < 2 THEN EmptyFrame
        ELSE Let(excel_df_of_lines(table_content, lines), LAMBDA df :
                 IF df.err THEN EmptyFrame
                 ELSE Let(name_integer_columns(df, lines), LAMBDA named :
                          convert_numeric_excel(named))))

\* lines 87-95: the first line with a pipe after the name line; 0 when none
table_start(lines) ==
    Let({i \in 2..Len(lines) : Contains(lines[i], "|")}, LAMBDA found :
        IF found = {} THEN 0 ELSE SetMin(found) - 1)

\* lines 82-95 and 200: one sheet of the workbook written
excel_sheet(sheet_content) ==
    Let(Split(Strip(sheet_content), "\n"), LAMBDA lines :
    Let(sheet_frame(Join(SubSeqClamp(lines, table_start(lines) + 1, Len(lines)), "\n")),
        LAMBDA df :
        [name |-> Strip(lines[1]),
         table |-> [columns |-> df.columns, rows |-> df.rows]]))

\* markdown_to_excel(markdown_content): the workbook written, as the sequence
\* of its sheets
markdown_to_excel(markdown_content) ==
    Let(SelectSeq(Split(markdown_content, "## Sheet: "), LAMBDA x : Strip(x) # ""),
        LAMBDA sheets : [k \in 1..Len(sheets) |-> excel_sheet(sheets[k])])

----------------------------------------------------------------------------
(* merge_tables (doc_handlers/ocr.py) *)

\* The code-fence marker, three backquotes in the source. A string of this
\* notation cannot hold a backquote, so the apostrophe stands for it in every
\* text of the model; no text of the model uses the apostrophe otherwise.
Fence == "'''"

NotCalled == [kind |-> "not_called"]

NoResult == [ret |-> "", raised |-> FALSE, log |-> "none", llm_calls |-> 0]

\* re.findall(r"FENCE(?:markdown)?(.*?)FENCE", s, re.DOTALL), scanning from position from
RECURSIVE code_matches_from(_, _)
code_matches_from(s, from) ==
    LET i == FindFrom(s, Fence, from)
    IN  IF i = 0 THEN <<>>
        ELSE LET body  == IF Slice(s, i + 3, i + 10) = "markdown"
                          THEN i + 11 ELSE i + 3
                 close == FindFrom(s, Fence, body)
             IN  IF close = 0 THEN <<>>
                 ELSE <<Slice(s, body, close - 1)>> \o code_matches_from(s, close + 3)

\* max(code_matches, key=len): the first of the longest matches
max_by_len(ms) ==
    LET best == SetMin({i \in 1..Len(ms) : \A k \in 1..Len(ms) : Len(ms[k]) <= Len(ms[i])})
    IN  ms[best]

\* the variant that takes the first fenced block, whatever its length
strip_code_fence_first(merged_table) ==
    IF Contains(merged_table, Fence)
    THEN LET code_matches == code_matches_from(merged_table, 1)
         IN  IF Len(code_matches) > 0
             THEN Strip(code_matches[1])
             ELSE merged_table
    ELSE merged_table

\* lines 365-371: the text of the longest fenced block, when there is one
strip_code_fence(merged_table) ==
    IF Contains(merged_table, Fence)
    THEN LET code_matches == code_matches_from(merged_table, 1)
         IN  IF Len(code_matches) > 0
             THEN Strip(max_by_len(code_matches))
             ELSE merged_table
    ELSE merged_table

\* the validation with the check of the separator line forgotten
valid_table_header_only(merged_table) ==
    LET lines == Split(Strip(merged_table), "\n")
    IN  Len(lines) >= 2 /\ Contains(lines[1], "|")

\* lines 374-383: valid_table
valid_table(merged_table) ==
    LET lines == Split(Strip(merged_table), "\n")
    IN  /\ Len(lines) >= 2
        /\ Contains(lines[1], "|")
        /\ Contains(lines[2], "---")
        /\ Contains(lines[2], "|")

\* the completion call with handlers that let the error through
merge_with_llm_reraise(existing_table, completion) ==
    IF completion.kind = "raise"
    THEN [ret |-> "", raised |-> TRUE, log |-> "error", llm_calls |-> 1]
    ELSE [ret |-> Strip(completion.content), raised |-> FALSE, log |-> "none",
          llm_calls |-> 1]

\* lines 354-394: the completion call and what is made of its answer
merge_with_llm(existing_table, completion) ==
    IF completion.kind = "raise"
    THEN [ret |-> existing_table, raised |-> FALSE, log |-> "error", llm_calls |-> 1]
    ELSE LET merged_table == Strip(completion.content)
         IN  IF ~Contains(merged_table, "|") \/ Strip(merged_table) = ""
             THEN [ret |-> existing_table, raised |-> FALSE, log |-> "warning",
                   llm_calls |-> 1]
             ELSE LET block == strip_code_fence(merged_table)
                  IN  IF ~valid_table(block)
                      THEN [ret |-> existing_table, raised |-> FALSE,
                            log |-> "warning", llm_calls |-> 1]
                      ELSE [ret |-> block, raised |-> FALSE, log |-> "none",
                            llm_calls |-> 1]

\* lines 318-323: an empty input short-cuts the merge
blank_input(existing_table, new_table) ==
    IsBlank(existing_table) \/ IsBlank(new_table)

\* merge_tables(existing_table, new_table), with completion what the
\* completion call does if it is reached
merge_tables(existing_table, new_table, completion) ==
    IF IsBlank(existing_table)
    THEN [ret |-> new_table, raised |-> FALSE, log |-> "none", llm_calls |-> 0]
    ELSE IF IsBlank(new_table)
    THEN [ret |-> existing_table, raised |-> FALSE, log |-> "none", llm_calls |-> 0]
    ELSE merge_with_llm(existing_table, completion)

----------------------------------------------------------------------------
(* Inputs of the merge_tables specification *)

\* a valid table of three rows
Table3 == "| ID | Name |\n|----|------|\n| 1 | Ann |\n| 2 | Bob |\n| 3 | Cy |"

OcrTable == "| ID | Name |\n|---|---|\n| 4 | Dee |"

ExistingInputs == {"", " \n", Table3, "| x |"}

NewInputs == {"", "  ", OcrTable}

\* the pieces completion texts are made of
Fragments == {"| a |\n", "|---|", Fence, "markdown", "x", "\n", "not a table"}

RECURSIVE TextsOf(_)
\* the concatenations of exactly n fragments
TextsOf(n) ==
    IF n = 0 THEN {""}
    ELSE {t \o f : t \in TextsOf(n - 1), f \in Fragments}

CompletionTexts == UNION {TextsOf(n) : n \in 0..MaxFrags}

\* answers that hold two fenced blocks
TwoBlockTexts ==
    { Fence \o "x" \o Fence \o "\n" \o Fence \o "markdown\n| a |\n|---|\n" \o Fence,
      Fence \o "\n| a |\n|---|\n| 1 |\n" \o Fence \o " or " \o Fence \o "| b |\n|---|" \o Fence,
      Fence \o "not a table, but long" \o Fence \o Fence \o "| a |\n|---|" \o Fence,
      Fence \o "| a |\n|---|" \o Fence \o Fence \o "| b |\n|---|" \o Fence }

Completions ==
    {[kind |-> "raise"]}
    \cup {[kind |-> "text", content |-> t] : t \in CompletionTexts \cup TwoBlockTexts}

----------------------------------------------------------------------------
(* Specification SpecMerge: merge_tables on every pair of inputs *)

IdleMerge ==
    /\ mt_pc = "idle"
    /\ mt_existing = ""
    /\ mt_new = ""
    /\ mt_completion = NotCalled
    /\ mt_result = NoResult

NoUpdate == [updated |-> FALSE, checked |-> FALSE, warning |-> FALSE,
             original_rows |-> 0, new_rows |-> 0]

IdleUpdate ==
    /\ ud_form = <<>>
    /\ ud_before = <<>>
    /\ ud_message = ""
    /\ ud_result = NoUpdate
    /\ ud_edits = 0

NoTable == [columns |-> <<>>, rows |-> <<>>, given |-> FALSE]

NotParsed == [raised |-> FALSE, error |-> FALSE, msg |-> "not called",
              columns |-> <<>>, rows |-> <<>>]

NotWritten == << [name |-> "not called", table |-> [columns |-> <<>>, rows |-> <<>>]] >>

IdleCodec ==
    /\ cd_pc = "idle"
    /\ cd_table = NoTable
    /\ cd_text = ""
    /\ cd_df = NotParsed
    /\ cd_excel = NotWritten

\* draft_form is None
NoForm == <<>>

\* main.py lines 71-81 and 220-227: the session state a first script run
\* sets up. None is "" for the texts and NoForm for the forms;
\* last_processed_image is "absent" until line 444 creates the key. The
\* keys the script only displays (messages, chat_graph, original_filename,
\* is_form_complete, which is never set to True) are left out.
FreshSession ==
    [main_form_path |-> "", form_type |-> "",
     draft_form |-> NoForm, previous_draft_form |-> NoForm,
     ocr_result |-> "", ocr_table_preview |-> "", ocr_processing |-> FALSE,
     ocr_can_convert |-> FALSE, ocr_reason |-> "",
     last_processed_image |-> "absent"]

NoFile == [given |-> FALSE, workbook |-> [readable |-> FALSE, sheets |-> <<>>]]

NoMerge == [clicked |-> FALSE, before |-> "", first_sheet |-> "",
            incoming |-> "", completion |-> NotCalled, merged |-> NoResult]

FreshApp ==
    /\ session_state = FreshSession
    /\ main_form_uploader = NoFile
    /\ chat_image_uploader = ""
    /\ merge_button_shown = FALSE
    /\ notice = {}
    /\ rerun_pending = FALSE
    /\ merge_log = NoMerge
    /\ user_actions = 0
    /\ ocr_runs = 0

IdleApp == FreshApp

NoStatus == [prefilled_fields |-> <<>>, empty_fields |-> <<>>, called |-> FALSE]

IdleStatus ==
    /\ st_previous = <<>>
    /\ st_current = <<>>
    /\ st_status = NoStatus

\* ocr.py 16: _reader = None
None == 0

\* ocr.py 17: a lock nobody holds
Unlocked == 0

Threads == 1..MaxThreads

\* ocr.py 16-17: the module as imported, no call begun
FreshReader ==
    /\ reader = None
    /\ reader_lock = Unlocked
    /\ rd_pc = [t \in Threads |-> "idle"]
    /\ rd_ret = [t \in Threads |-> {}]
    /\ rd_failed = [t \in Threads |-> FALSE]
    /\ rd_built = 0
    /\ rd_calls = 0
    /\ rd_returned = {}
    /\ rd_unlocked = FALSE

IdleReader == FreshReader

IdleSegment ==
    /\ sg_doc = ""
    /\ sg_done = {}
    /\ sg_sheets = <<>>
    /\ sg_again = <<>>
    /\ sg_excel = <<>>

InitMerge ==
    /\ mt_pc = "start"
    /\ mt_existing \in ExistingInputs
    /\ mt_new \in NewInputs
    /\ mt_completion = NotCalled
    /\ mt_result = NoResult
    /\ IdleUpdate
    /\ IdleCodec
    /\ IdleApp
    /\ IdleSegment
    /\ IdleStatus
    /\ IdleReader

\* one call of merge_tables that returns without the completion capability
MergeBlank ==
    /\ mt_pc = "start"
    /\ blank_input(mt_existing, mt_new)
    /\ mt_result' = merge_tables(mt_existing, mt_new, NotCalled)
    /\ mt_pc' = "done"
    /\ UNCHANGED <<mt_existing, mt_new, mt_completion>>
    /\ UNCHANGED OthersOfMerge

\* one call of merge_tables that reaches the completion capability
MergeCall ==
    /\ mt_pc = "start"
    /\ ~blank_input(mt_existing, mt_new)
    /\ \E c \in Completions :
          /\ mt_completion' = c
          /\ mt_result' = merge_tables(mt_existing, mt_new, c)
    /\ mt_pc' = "done"
    /\ UNCHANGED <<mt_existing, mt_new>>
    /\ UNCHANGED OthersOfMerge

NextMerge == MergeBlank \/ MergeCall

SpecMerge == InitMerge /\ [][NextMerge]_vars

\* a text of whitespace only (the empty text included)
OnlyWhitespace(s) == \A i \in 1..Len(s) : At(s, i) \in {" ", "\n", "\t", "\r"}

\* what a caller may rely on in a returned table: two non-empty lines at
\* least, a pipe in the first line, a pipe and a hyphen run in the second
LooksValidated(t) ==
    LET ls == Split(t, "\n")
    IN  /\ Cardinality({i \in 1..Len(ls) : ls[i] # ""}) >= 2
        /\ Contains(ls[1], "|")
        /\ Contains(ls[2], "|")
        /\ Contains(ls[2], "-")

MergeDone == mt_pc = "done"

BothGiven == ~OnlyWhitespace(mt_existing) /\ ~OnlyWhitespace(mt_new)

(* C1: merge_tables on two non-blank tables and any completion text returns
   either the existing table exactly as passed in or a text with at least two
   non-empty lines whose first line holds a pipe and whose second line holds a
   pipe and a run of hyphens; unvalidated completion output is never
   returned. *)
C1_ReturnsTargetOrValidated ==
    (MergeDone /\ BothGiven /\ mt_completion.kind = "text")
        => (mt_result.ret = mt_existing \/ LooksValidated(mt_result.ret))

\* a merged table taken out of a fenced block was returned
C1_Witness ==
    /\ MergeDone /\ BothGiven /\ mt_completion.kind = "text"
    /\ Contains(mt_completion.content, Fence)
    /\ mt_result.ret # mt_existing
    /\ LooksValidated(mt_result.ret)

(* C3: when the completion call raises, merge_tables on two non-blank tables
   returns the existing table unchanged and no exception reaches the caller. *)
C3_ErrorReturnsTarget ==
    (MergeDone /\ BothGiven /\ mt_completion.kind = "raise")
        => (mt_result.ret = mt_existing /\ ~mt_result.raised)

\* the completion call was made and raised
C3_Witness ==
    /\ MergeDone /\ BothGiven /\ mt_completion.kind = "raise"
    /\ mt_result.llm_calls = 1 /\ mt_result.log = "error"
    /\ mt_existing = Table3

(* C4: when either input of merge_tables is empty or only whitespace, the
   other input is returned unchanged and the completion capability is not
   invoked; a valid 3-row target with an empty incoming table gives the target
   back with zero completion calls. *)
C4_BlankShortCut ==
    /\ (MergeDone /\ OnlyWhitespace(mt_existing))
          => (mt_result.ret = mt_new /\ mt_result.llm_calls = 0)
    /\ (MergeDone /\ ~OnlyWhitespace(mt_existing) /\ OnlyWhitespace(mt_new))
          => (mt_result.ret = mt_existing /\ mt_result.llm_calls = 0)
    /\ (MergeDone /\ mt_existing = Table3 /\ mt_new = "")
          => (mt_result.ret = Table3 /\ mt_result.llm_calls = 0)

\* the 3-row target came back from a call with an empty incoming table
C4_Witness ==
    /\ MergeDone /\ mt_existing = Table3 /\ mt_new = ""
    /\ mt_result.ret = Table3 /\ mt_result.llm_calls = 0

----------------------------------------------------------------------------
(* Specification SpecUpdate: edit cycles, each one call of update_draft_form
   on the form the previous call left *)

\* a sheet with one numeric column k holding 1..n
RowsTable(n) == [columns |-> <<"k">>, rows |-> [r \in 1..n |-> <<Num(r)>>]]

OneSheet(name, n) ==
    [readable |-> TRUE, sheets |-> <<[name |-> name, table |-> RowsTable(n)]>>]

TwoSheets(n, m) ==
    [readable |-> TRUE,
     sheets |-> <<[name |-> "A", table |-> RowsTable(n)],
                  [name |-> "B", table |-> RowsTable(m)]>>]

\* the Documents of the edit cycles
Doc5 == excel_to_markdown(OneSheet("A", 5))

DocAB == excel_to_markdown(TwoSheets(2, 1))

\* the forms an edit cycle starts from
StartForms ==
    { parse_excel_form(OneSheet("A", 5)),
      parse_excel_form(TwoSheets(2, 1)),
      <<[type |-> "markdown", value |-> ""]>>,
      <<[type |-> "text", value |-> ""]>>,
      <<[type |-> "text", value |-> "x"], [type |-> "markdown", value |-> Doc5]>> }

\* an answer of the assistant with the new Document in its form tags
Reply(doc) == "<answer>Done.</answer>\n<form>\n" \o doc \o "\n</form>"

\* the Documents the assistant sends back
EditedDocs ==
    { excel_to_markdown(OneSheet("A", n)) : n \in {3, 5, 6} }
    \cup { excel_to_markdown(TwoSheets(1, 2)),
           "Rows | changed\n" \o excel_to_markdown(OneSheet("A", 4)),
           to_markdown(RowsTable(1)) }

UpdateMessages ==
    { Reply(d) : d \in EditedDocs }
    \cup { "<answer>The table has rows.</answer>",
           "<answer>x</answer><form></form>",
           "<answer>x</answer><form>nothing to show</form>",
           "Here it is:\n" \o to_markdown(RowsTable(3)) \o "\n\nAnything else?" }

InitUpdate ==
    /\ ud_form \in StartForms
    /\ ud_before = <<>>
    /\ ud_message = ""
    /\ ud_result = NoUpdate
    /\ ud_edits = 0
    /\ IdleMerge
    /\ IdleCodec
    /\ IdleApp
    /\ IdleSegment
    /\ IdleStatus
    /\ IdleReader

\* one call update_draft_form(draft_form, message)
UpdateDraftForm ==
    /\ ud_edits < MaxEdits
    /\ \E message \in UpdateMessages :
          LET r == update_draft_form(ud_form, message)
          IN  /\ ud_message' = message
              /\ ud_form' = r.form
              /\ ud_result' = [updated |-> r.updated, checked |-> r.checked,
                               warning |-> r.warning,
                               original_rows |-> r.original_rows,
                               new_rows |-> r.new_rows]
    /\ ud_before' = ud_form
    /\ ud_edits' = ud_edits + 1
    /\ UNCHANGED OthersOfUpdate

NextUpdate == UpdateDraftForm

SpecUpdate == InitUpdate /\ [][NextUpdate]_vars

\* the lines of a Document that hold a pipe (a table of n data rows has n + 2)
TableLines(doc) ==
    LET ls == Split(Strip(doc), "\n")
    IN  Cardinality({i \in 1..Len(ls) : FindFrom(ls[i], "|", 1) > 0})

\* the data rows of one sheet: its pipe lines but the header and the separator
DataRows(content) ==
    IF TableLines(content) >= 2 THEN TableLines(content) - 2 ELSE 0

\* the data rows of the single table of a Document of one sheet
SingleTableRows(doc) ==
    LET sheets == extract_excel_sheet_content(doc)
    IN  IF Len(sheets) = 1 THEN DataRows(sheets[1].content) ELSE 0 - 1

DocBefore == markdown_value(ud_before)

DocAfter == markdown_value(ud_form)

(* C7: the data-loss warning of update_draft_form is raised if and only if
   the current row count is strictly smaller than the previous row count; a
   table of 5 rows replaced by one of 3 rows gives the warning, replaced by one
   of 5 or 6 rows gives none. *)
C7_WarningIffFewerRows ==
    /\ ud_result.checked
          => (ud_result.warning <=> TableLines(DocAfter) < TableLines(DocBefore))
    /\ ~ud_result.checked => ~ud_result.warning
    /\ (ud_result.updated /\ SingleTableRows(DocBefore) = 5)
          => /\ SingleTableRows(DocAfter) = 3 => ud_result.warning
             /\ SingleTableRows(DocAfter) \in {5, 6} => ~ud_result.warning

\* a 5-row table was replaced by a 3-row table and the warning was printed
C7_Witness ==
    /\ ud_result.checked /\ ud_result.warning
    /\ SingleTableRows(DocBefore) = 5 /\ SingleTableRows(DocAfter) = 3

\* some sheet of the Document before has fewer data rows in the Document after
SomeSheetShrank ==
    LET old == extract_excel_sheet_content(DocBefore)
        new == extract_excel_sheet_content(DocAfter)
    IN  \E i \in 1..Len(old) : \E j \in 1..Len(new) :
            /\ old[i].name = new[j].name
            /\ DataRows(new[j].content) < DataRows(old[i].content)

(* C8: in every edit cycle in which update_draft_form replaces the Document
   and some sheet of the new content has fewer data rows than the same sheet
   had before, the row-preservation warning is raised, also when another sheet
   gains rows or the new content gains pipe lines that are no data. *)
C8_NoShrinkUndetected ==
    (ud_result.updated /\ SomeSheetShrank) => ud_result.warning

(* C9: the warning does not block the update: whenever update_draft_form
   extracts form content that holds a pipe and the form has a markdown field,
   the markdown field equals the new content after the call, warning or not. *)
C9_WarningDoesNotBlock ==
    (/\ ud_edits > 0
     /\ FindFrom(extract_form_content(ud_message), "|", 1) > 0
     /\ \E i \in 1..Len(ud_before) : ud_before[i].type = "markdown")
        => /\ DocAfter = extract_form_content(ud_message)
           /\ Len(ud_form) = Len(ud_before)
           /\ \A i \in 1..Len(ud_form) :
                  i # markdown_field_index(ud_before) => ud_form[i] = ud_before[i]

\* the warning fired and the field holds the new, shorter content
C9_Witness ==
    /\ ud_result.warning
    /\ DocAfter = extract_form_content(ud_message)
    /\ DocAfter # DocBefore
    /\ TableLines(DocAfter) < TableLines(DocBefore)

----------------------------------------------------------------------------
(* Specification SpecCodec: a table is encoded as excel_to_markdown encodes
   the DataFrame of a sheet and the text is decoded by markdown_to_df and by
   markdown_to_excel; or an arbitrary text is decoded. *)

CodecCells == {Num(7), Num(12), Str("ab")}

CodecColumns == {<<"ID">>, <<"Name">>, <<"ID", "Name">>, <<"Name", "ID">>}

\* every table of up to MaxRows rows over the cells and the columns
CodecTables ==
    {[columns |-> cols, rows |-> rows, given |-> TRUE] :
        <<cols, rows>> \in UNION {
            {<<c, r>> : r \in UNION {[1..n -> [1..Len(c) -> CodecCells]] : n \in 0..MaxRows}} :
            c \in CodecColumns}}

\* the standard table of two rows: header, separator, two data lines
IdNameTable == "| ID | Name |\n|----|------|\n| 1  | Alice |\n| 2  | Bob |"

\* texts that are not the encoding of a table
CodecTexts ==
    {"", "no table here", "|", "| a |", "| a | b |\n| 1 |",
     "|a|\n|---|\n|1|2|\n|3|4|5|",
     "\n| a |\n|---|\n| 1 |",
     "a | b | c\n--- | --- | ---\n1 | 2 | 3",
     "||\n|---|\n||",
     "| ID | Name |\n|----|------|\n| 1 | Alice |",
     "|v|\n|---|\n|1|\n|ab|",
     IdNameTable,
     "| a |\n|---|",
     "| a |\n|--|\n| 1 |",
     "a|b\n|---|\n|1|",
     "a|b\n|---|---|\n|1|2|"}

InitCodec ==
    /\ \/ cd_pc = "table" /\ cd_table \in CodecTables /\ cd_text = ""
       \/ cd_pc = "text" /\ cd_table = NoTable /\ cd_text \in CodecTexts
    /\ cd_df = NotParsed
    /\ cd_excel = NotWritten
    /\ IdleMerge
    /\ IdleUpdate
    /\ IdleApp
    /\ IdleSegment
    /\ IdleStatus
    /\ IdleReader

\* excel.py line 51: the table is written as markdown
Encode ==
    /\ cd_pc = "table"
    /\ cd_text' = to_markdown(cd_table)
    /\ cd_pc' = "text"
    /\ UNCHANGED <<cd_table, cd_df, cd_excel>>
    /\ UNCHANGED OthersOfCodec

\* one call markdown_to_df(cd_text)
MarkdownToDf ==
    /\ cd_pc = "text"
    /\ cd_df = NotParsed
    /\ cd_df' = markdown_to_df(cd_text)
    /\ UNCHANGED <<cd_pc, cd_table, cd_text, cd_excel>>
    /\ UNCHANGED OthersOfCodec

\* one call markdown_to_excel on the document of one sheet A holding cd_text
MarkdownToExcel ==
    /\ cd_pc = "text"
    /\ cd_excel = NotWritten
    /\ cd_excel' = markdown_to_excel(sheet_section("A", cd_text))
    /\ UNCHANGED <<cd_pc, cd_table, cd_text, cd_df>>
    /\ UNCHANGED OthersOfCodec

NextCodec == Encode \/ MarkdownToDf \/ MarkdownToExcel

SpecCodec == InitCodec /\ [][NextCodec]_vars

\* C5: markdown_to_df never raises: for every input text, the empty text and
\* a text without a pipe included, the call returns a frame (parsed or the
\* error frame) and no exception reaches the caller.
C5_NeverRaises ==
    cd_df # NotParsed => ~cd_df.raised

\* the frame has the columns and the cells of the table
SameTable(columns, rows, tbl) ==
    /\ columns = tbl.columns
    /\ Len(rows) = Len(tbl.rows)
    /\ rows = tbl.rows

\* C6: round trip: decoding the markdown that encodes a table T (at least one
\* column, cells strings and numbers) yields the column names of T in order,
\* as many rows, and equal cells, strings with no added or lost whitespace.
C6_RoundTrip ==
    cd_table.given =>
        /\ cd_df # NotParsed =>
              /\ ~cd_df.raised /\ ~cd_df.error
              /\ SameTable(cd_df.columns, cd_df.rows, cd_table)
        /\ cd_excel # NotWritten =>
              /\ Len(cd_excel) = 1
              /\ SameTable(cd_excel[1].table.columns, cd_excel[1].table.rows, cd_table)

----------------------------------------------------------------------------
(* The Streamlit script (main.py). Every widget event and every st.rerun()
   runs the script once from the top; one run is one step here. A run is the
   record [ss, notice, rerun, shown, log, ocr]: the session state, the
   messages of the merge handler, whether st.rerun() ended the run, whether
   the merge button was rendered, the inputs of the merge handler, and
   whether the run extracted the text of the image. *)

RunStart(ss) ==
    [ss |-> ss, notice |-> {}, rerun |-> FALSE, shown |-> FALSE, log |-> NoMerge,
     ocr |-> FALSE]

\* the next section of the script runs unless st.rerun() ended the run
Then(run, Section(_)) ==
    Let(run, LAMBDA r : IF r.rerun THEN r ELSE Section(r))

\* the upload handler without the test of main_form_path: the workbook in the
\* uploader is parsed in every run
upload_section_every_run(r, main_form) ==
    IF main_form.given
    THEN Let(parse_excel_form(main_form.workbook), LAMBDA form :
             [r EXCEPT !.ss = [@ EXCEPT !.main_form_path = "forms/main_form",
                                        !.form_type = "excel",
                                        !.draft_form = form,
                                        !.previous_draft_form = form],
                       !.rerun = TRUE])
    ELSE r

\* lines 97-113: the uploaded workbook is parsed while main_form_path is unset
upload_section(r, main_form) ==
    IF main_form.given /\ r.ss.main_form_path = ""
    THEN Let(parse_excel_form(main_form.workbook), LAMBDA form :
             [r EXCEPT !.ss = [@ EXCEPT !.main_form_path = "forms/main_form",
                                        !.form_type = "excel",
                                        !.draft_form = form,
                                        !.previous_draft_form = form],
                       !.rerun = TRUE])
    ELSE r

\* lines 64-68 and 156-158: Start Over deletes every key; the next run sets
\* the keys up again
start_over_section(r, trigger) ==
    IF trigger = "start_over"
    THEN [r EXCEPT !.ss = FreshSession, !.rerun = TRUE]
    ELSE r

\* lines 353-356
clear_ocr_state(ss) ==
    [ss EXCEPT !.ocr_result = "", !.ocr_table_preview = "",
               !.ocr_processing = FALSE, !.ocr_can_convert = FALSE]

\* lines 308-312
updated_content(first_sheet_name, merged_table) ==
    IF ~StartsWith(merged_table, "## Sheet:") /\ first_sheet_name # ""
    THEN "## Sheet: " \o first_sheet_name \o "\n\n" \o merged_table
    ELSE merged_table

\* lines 341-350: the check after the update; the snapshot it restores from
\* was taken at line 338 from the form as it is now
restore_check(ss) ==
    Let(markdown_value(ss.draft_form), LAMBDA value :
        IF markdown_field_index(ss.draft_form) # 0
           /\ (Len(value) < 10 \/ ~Contains(value, "|"))
        THEN [ss |-> [ss EXCEPT !.draft_form = ss.previous_draft_form],
              notice |-> {"restored"}]
        ELSE [ss |-> ss, notice |-> {}])

\* lines 305-361: the merged table is stored in the first markdown field
store_merged(r, first_sheet_name, merged_table) ==
    LET valid == merged_table # "" /\ Contains(merged_table, "|")
        form  == IF valid
                 THEN store_content(r.ss.draft_form, markdown_field_index(r.ss.draft_form),
                                    updated_content(first_sheet_name, merged_table), FALSE)
                 ELSE r.ss.draft_form
    IN  Let(restore_check([r.ss EXCEPT !.draft_form = form, !.previous_draft_form = form]),
            LAMBDA checked :
            [r EXCEPT !.ss = clear_ocr_state(checked.ss),
                      !.notice = r.notice
                                 \cup (IF valid THEN {"success"} ELSE {"invalid_merge"})
                                 \cup checked.notice,
                      !.rerun = TRUE])

\* what the completion capability can do inside the 40 seconds, or not
TimedOut == [kind |-> "timeout"]

\* the timeout handled as if merged_table were bound to the OCR preview
timeout_outcome_stores_preview(r, log, first_sheet_name) ==
    store_merged([r EXCEPT !.log = log], first_sheet_name, r.ss.ocr_table_preview)

\* lines 294-305 and 362-363: the suppressed timeout leaves merged_table
\* unbound, the NameError of line 305 is caught by the handler's own except
\* and displayed; nothing is stored and the run goes on
timeout_outcome(r, log, first_sheet_name) ==
    [r EXCEPT !.notice = {"handler_error"}, !.log = log]

\* lines 271-363: the handler of the merge button
merge_button(r, completion) ==
    Let(markdown_value(r.ss.draft_form), LAMBDA excel_markdown :
        IF excel_markdown = "" THEN r
        ELSE Let(extract_excel_sheet_content(excel_markdown), LAMBDA sheets :
            \* line 284: list(sheets.keys())[0] of an empty dict raises, line 362
            IF Len(sheets) = 0 THEN [r EXCEPT !.notice = {"handler_error"}]
            ELSE
            LET first_sheet_name == sheets[1].name
                first_sheet_content == sheets[1].content
                log == [clicked |-> TRUE, before |-> excel_markdown,
                        first_sheet |-> first_sheet_content,
                        incoming |-> r.ss.ocr_table_preview,
                        completion |-> completion, merged |-> NoResult]
            IN  \* lines 294-301: the timeout is suppressed and merged_table stays
                \* unbound; line 305 raises NameError, caught at line 362
                IF completion.kind = "timeout"
                   /\ ~blank_input(first_sheet_content, r.ss.ocr_table_preview)
                THEN timeout_outcome(r, log, first_sheet_name)
                ELSE Let(merge_tables(first_sheet_content, r.ss.ocr_table_preview, completion),
                         LAMBDA merged :
                         IF merged.raised
                         THEN store_merged([r EXCEPT !.notice = {"merge_error"},
                                                     !.log = [log EXCEPT !.merged = merged]],
                                           first_sheet_name, first_sheet_content)
                         ELSE store_merged([r EXCEPT !.log = [log EXCEPT !.merged = merged]],
                                           first_sheet_name, merged.ret))))

\* lines 263-271: the preview and the merge button
merge_section(r, trigger, completion) ==
    IF r.ss.ocr_table_preview # "" /\ r.ss.ocr_can_convert
    THEN (IF trigger = "merge" THEN merge_button([r EXCEPT !.shown = TRUE], completion)
          ELSE [r EXCEPT !.shown = TRUE])
    ELSE r

\* lines 371-426: the chat input; reply is the last message of the graph, or
\* the graph raises
chat_section(r, trigger, reply) ==
    IF r.ss.draft_form # NoForm /\ trigger = "chat" /\ reply.kind = "message"
    THEN [r EXCEPT !.ss.draft_form =
                        IF r.ss.form_type = "excel" /\ extract_form_content(reply.content) # ""
                        THEN update_draft_form(r.ss.draft_form, reply.content).form
                        ELSE r.ss.draft_form,
                   !.rerun = TRUE]
    ELSE r

\* the previews written when there is no table (lines 506, 510, 523); the
\* source has them in Chinese
CannotConvert == "cannot convert to a table"

NoTextExtracted == "cannot extract text"

OcrFailed == "OCR failed"

\* a text extract_text_from_image returns for a failure it caught; line 480
\* tells it by how it starts
FailureText == "cannot read the image"

OcrText == "ID Name 4 Dee"

\* lines 458-526: OCR of the image and the convertibility check
ocr_outcome(ss, ocr) ==
    IF ocr.extract = "raise"
    THEN [ss EXCEPT !.ocr_can_convert = FALSE, !.ocr_reason = "error",
                    !.ocr_table_preview = OcrFailed]
    ELSE
    LET extracted_text == IF ocr.extract = "none" THEN ""
                          ELSE IF ocr.extract = "failed" THEN FailureText ELSE OcrText
        s1 == [ss EXCEPT !.ocr_result = extracted_text]
    IN  IF ocr.extract = "text"
        THEN (IF ocr.convert.kind = "timeout"
              \* the timeout is suppressed, line 500 raises NameError, line 511
              THEN [s1 EXCEPT !.ocr_can_convert = FALSE, !.ocr_reason = "error",
                              !.ocr_table_preview = OcrFailed]
              ELSE IF ocr.convert.kind = "raise"
              THEN [s1 EXCEPT !.ocr_can_convert = FALSE, !.ocr_reason = "error",
                              !.ocr_table_preview = CannotConvert]
              ELSE [s1 EXCEPT !.ocr_can_convert = ocr.convert.flag,
                              !.ocr_reason = "reason",
                              !.ocr_table_preview =
                                   IF ocr.convert.flag /\ ocr.convert.table # ""
                                   THEN ocr.convert.table ELSE CannotConvert])
        ELSE [s1 EXCEPT !.ocr_can_convert = FALSE, !.ocr_reason = "no text",
                        !.ocr_table_preview =
                             IF extracted_text # "" THEN extracted_text ELSE NoTextExtracted]

\* lines 437-530: the image uploader
image_section(r, image_file, ocr) ==
    IF image_file # "" /\ r.ss.draft_form # NoForm
    THEN (IF r.ss.last_processed_image # image_file
          THEN [r EXCEPT !.ss = [@ EXCEPT !.ocr_processing = TRUE,
                                          !.last_processed_image = image_file],
                         !.rerun = TRUE]
          ELSE [r EXCEPT !.ss = [ocr_outcome(r.ss, ocr) EXCEPT !.ocr_processing = FALSE],
                         !.rerun = TRUE, !.ocr = TRUE])
    ELSE r

\* one run of the script; env is what the run meets: the widget that
\* triggered it and what the completion, the chat graph and the OCR do
script_run(ss, main_form, image_file, env) ==
    Then(Then(Then(Then(upload_section(RunStart(ss), main_form),
                        LAMBDA r : start_over_section(r, env.trigger)),
                   LAMBDA r : merge_section(r, env.trigger, env.completion)),
              LAMBDA r : chat_section(r, env.trigger, env.reply)),
         LAMBDA r : image_section(r, image_file, env.ocr))

----------------------------------------------------------------------------
(* Specification SpecApp: one browser session *)

\* a workbook as a spreadsheet program creates it: one sheet, no cell filled
BlankWorkbook ==
    [readable |-> TRUE,
     sheets |-> <<[name |-> "Sheet1", table |-> [columns |-> <<>>, rows |-> <<>>]]>>]

AppWorkbooks == {OneSheet("A", 1), TwoSheets(1, 1), BlankWorkbook}

Images == {"a.png", "b.png"}

\* the table the convertibility check returns
PreviewTable == "| k |\n|---|\n| 9 |"

MergedTable == "| k |\n|---|\n| 1 |\n| 9 |"

AppCompletions ==
    {[kind |-> "raise"], TimedOut,
     [kind |-> "text", content |-> "not a table"],
     [kind |-> "text", content |-> "| k |"],
     [kind |-> "text", content |-> MergedTable],
     [kind |-> "text", content |-> Fence \o "markdown\n" \o MergedTable \o "\n" \o Fence]}

AppReplies ==
    {[kind |-> "raise"],
     [kind |-> "message", content |-> "<answer>Nothing to change.</answer>"],
     [kind |-> "message", content |-> Reply(excel_to_markdown(OneSheet("A", 2)))]}

OcrOutcomes ==
    {[extract |-> e, convert |-> NotCalled] : e \in {"raise", "none", "failed"}}
    \cup {[extract |-> "text", convert |-> c] :
            c \in {[kind |-> "raise"], TimedOut,
                   [kind |-> "tuple", flag |-> TRUE, table |-> PreviewTable],
                   [kind |-> "tuple", flag |-> TRUE, table |-> ""],
                   [kind |-> "tuple", flag |-> FALSE, table |-> ""]}}

Env(trigger, completion, reply, ocr) ==
    [trigger |-> trigger, completion |-> completion, reply |-> reply, ocr |-> ocr]

\* a section before the image handler ends the run with st.rerun(): the
\* upload handler (main.py 113), Start Over (158), the merge handler that
\* reaches line 359 (the completion answered or raised, and the field holds a
\* pipe, so that a sheet is found) and the chat handler after a reply
ends_before_image(ss, main_form, env) ==
    \/ main_form.given /\ ss.main_form_path = ""
    \/ env.trigger = "start_over"
    \/ /\ env.trigger = "merge"
       /\ ss.ocr_table_preview # "" /\ ss.ocr_can_convert
       /\ env.completion.kind # "timeout"
       /\ Contains(markdown_value(ss.draft_form), "|")
    \/ /\ env.trigger = "chat"
       /\ env.reply.kind = "message"
       /\ ss.draft_form # NoForm

\* what the OCR can do in a run that starts in the session state ss: the
\* run calls it only when no section ends the run before, a draft form
\* exists and the image in the uploader is the one marked as
\* last_processed_image (main.py 437-445)
OcrOutcomesFor(ss, main_form, image_file, env) ==
    IF /\ ~ends_before_image(ss, main_form, env)
       /\ ss.draft_form # NoForm
       /\ image_file # ""
       /\ ss.last_processed_image = image_file
    THEN OcrOutcomes
    ELSE {[extract |-> "none", convert |-> NotCalled]}

InitApp ==
    /\ FreshApp
    /\ IdleMerge
    /\ IdleUpdate
    /\ IdleCodec
    /\ IdleSegment
    /\ IdleStatus
    /\ IdleReader

\* the state the run leaves; same_image: the run found the image of the run
\* before in the uploader
AfterRun(run, same_image) ==
    /\ ocr_runs' = SetMin({MaxOcrRuns, (IF same_image THEN ocr_runs ELSE 0)
                                        + (IF run.ocr THEN 1 ELSE 0)})
    /\ session_state' = run.ss
    /\ merge_button_shown' = run.shown
    /\ notice' = run.notice
    /\ rerun_pending' = run.rerun
    /\ merge_log' = run.log

\* the user puts a workbook into the sidebar uploader
UploadMainForm ==
    /\ user_actions < MaxActions
    /\ main_form_uploader = NoFile
    /\ \E wb \in AppWorkbooks :
       \E ocr \in OcrOutcomesFor(session_state, [given |-> TRUE, workbook |-> wb],
                                  chat_image_uploader, Env("none", NotCalled, NotCalled, NotCalled)) :
          /\ main_form_uploader' = [given |-> TRUE, workbook |-> wb]
          /\ AfterRun(script_run(session_state, [given |-> TRUE, workbook |-> wb],
                                 chat_image_uploader,
                                 Env("none", NotCalled, NotCalled, ocr)), TRUE)
    /\ user_actions' = user_actions + 1
    /\ UNCHANGED chat_image_uploader
    /\ UNCHANGED OthersOfApp

\* the user clicks Start Over; the keys of the two uploaders are deleted with
\* the others, and whether an uploader still hands its file to the next runs
\* is left open
StartOver ==
    /\ user_actions < MaxActions
    /\ \E keep_form \in BOOLEAN, keep_image \in BOOLEAN,
          ocr \in OcrOutcomesFor(session_state, main_form_uploader, chat_image_uploader,
                                 Env("start_over", NotCalled, NotCalled, NotCalled)) :
          /\ main_form_uploader' = IF keep_form THEN main_form_uploader ELSE NoFile
          /\ chat_image_uploader' = IF keep_image THEN chat_image_uploader ELSE ""
          /\ AfterRun(script_run(session_state, main_form_uploader, chat_image_uploader,
                                 Env("start_over", NotCalled, NotCalled, ocr)), FALSE)
    /\ user_actions' = user_actions + 1
    /\ UNCHANGED OthersOfApp

\* the user sends a chat message
ChatSubmit ==
    /\ user_actions < MaxActions
    /\ session_state.draft_form # NoForm
    /\ \E reply \in AppReplies :
       \E ocr \in OcrOutcomesFor(session_state, main_form_uploader, chat_image_uploader,
                                  Env("chat", NotCalled, reply, NotCalled)) :
          AfterRun(script_run(session_state, main_form_uploader, chat_image_uploader,
                              Env("chat", NotCalled, reply, ocr)), TRUE)
    /\ user_actions' = user_actions + 1
    /\ UNCHANGED <<main_form_uploader, chat_image_uploader>>
    /\ UNCHANGED OthersOfApp

\* the user puts an image into the image uploader
UploadImage ==
    /\ user_actions < MaxActions
    /\ session_state.draft_form # NoForm
    /\ \E image \in Images \ {chat_image_uploader} :
       \E ocr \in OcrOutcomesFor(session_state, main_form_uploader, image,
                                  Env("none", NotCalled, NotCalled, NotCalled)) :
          /\ chat_image_uploader' = image
          /\ AfterRun(script_run(session_state, main_form_uploader, image,
                                 Env("none", NotCalled, NotCalled, ocr)), FALSE)
    /\ user_actions' = user_actions + 1
    /\ UNCHANGED main_form_uploader
    /\ UNCHANGED OthersOfApp

\* the user takes the image out of the image uploader
RemoveImage ==
    /\ user_actions < MaxActions
    /\ chat_image_uploader # ""
    /\ chat_image_uploader' = ""
    /\ \E ocr \in OcrOutcomesFor(session_state, main_form_uploader, "",
                                  Env("none", NotCalled, NotCalled, NotCalled)) :
          AfterRun(script_run(session_state, main_form_uploader, "",
                              Env("none", NotCalled, NotCalled, ocr)), FALSE)
    /\ user_actions' = user_actions + 1
    /\ UNCHANGED main_form_uploader
    /\ UNCHANGED OthersOfApp

\* the user clicks the merge button the last run rendered
ClickMerge ==
    /\ user_actions < MaxActions
    /\ merge_button_shown
    /\ \E completion \in AppCompletions :
       \E ocr \in OcrOutcomesFor(session_state, main_form_uploader, chat_image_uploader,
                                  Env("merge", completion, NotCalled, NotCalled)) :
          AfterRun(script_run(session_state, main_form_uploader, chat_image_uploader,
                              Env("merge", completion, NotCalled, ocr)), TRUE)
    /\ user_actions' = user_actions + 1
    /\ UNCHANGED <<main_form_uploader, chat_image_uploader>>
    /\ UNCHANGED OthersOfApp

\* the run that st.rerun() asked for
Rerun ==
    /\ rerun_pending
    /\ \E ocr \in OcrOutcomesFor(session_state, main_form_uploader, chat_image_uploader,
                                  Env("none", NotCalled, NotCalled, NotCalled)) :
          AfterRun(script_run(session_state, main_form_uploader, chat_image_uploader,
                              Env("none", NotCalled, NotCalled, ocr)), TRUE)
    /\ UNCHANGED <<main_form_uploader, chat_image_uploader, user_actions>>
    /\ UNCHANGED OthersOfApp

NextApp ==
    \/ UploadMainForm
    \/ StartOver
    \/ ChatSubmit
    \/ UploadImage
    \/ RemoveImage
    \/ ClickMerge
    \/ Rerun

SpecApp == InitApp /\ [][NextApp]_vars

\* the merge handler of the last run called merge_tables and merge_tables
\* fell back to the target: the completion call raised or its text failed
\* the validation
MergeFellBack ==
    merge_log.clicked /\ merge_log.merged.log \in {"error", "warning"}

\* C2: if the merge step fails (the completion call errors or its output
\* fails validation), then after the merge button handler the markdown field
\* of the draft form is identical to its value before the handler ran: no
\* sheet and no heading of the Document is lost.
C2_FailedMergeKeepsField ==
    MergeFellBack => markdown_value(session_state.draft_form) = merge_log.before

\* C10: for a completion that returns the text "not a table", merge returns
\* the target unchanged and the failure of the validation is reported: what
\* the caller is handed and shows tells it apart from an accepted merge.
C10_ValidationFailureReported ==
    (merge_log.clicked /\ merge_log.completion = [kind |-> "text", content |-> "not a table"])
        => /\ merge_log.merged.ret = merge_log.first_sheet
           /\ "success" \notin notice
           /\ notice \cap {"invalid_merge", "merge_error"} # {}

\* the merge handler of the last run waited for the completion in vain
MergeTimedOut ==
    merge_log.clicked /\ merge_log.completion = TimedOut

\* C11: when the merge completion does not finish within the 40 seconds of
\* the caller's wait, the markdown field after the merge handler equals its
\* value before, and no exception escapes the handler: the handler's own
\* except branch displays the error and the script run goes on.
C11_TimeoutKeepsField ==
    MergeTimedOut =>
        /\ markdown_value(session_state.draft_form) = merge_log.before
        /\ notice = {"handler_error"}

C11_Witness ==
    /\ MergeTimedOut
    /\ merge_log.before # ""
    /\ "handler_error" \in notice

----------------------------------------------------------------------------
(* Specification SpecSegment: a Document is split into its sheets by
   extract_excel_sheet_content and by markdown_to_excel, and the sheets of
   the first are written as a Document again (excel.py lines 48-52) and
   split once more. *)

\* the lines Documents are made of: headings with a name, without a name and
\* with the name a default could take, table lines, a blank line
DocLines ==
    {"## Sheet: A", "## Sheet:", "## Sheet: Sheet2",
     "| x |", "|---|", "| 1 |", ""}

RECURSIVE DocsOf(_)
\* the Documents of exactly n lines
DocsOf(n) ==
    IF n = 1 THEN DocLines
    ELSE {d \o "\n" \o l : d \in DocsOf(n - 1), l \in DocLines}

Documents == UNION {DocsOf(n) : n \in 1..MaxLines}

\* excel.py lines 48-52 over the sections of a mapping, in mapping order
join_sheets(sheets) ==
    Concat([k \in 1..Len(sheets) |-> sheet_section(sheets[k].name, sheets[k].content)])

InitSegment ==
    /\ sg_doc \in Documents
    /\ sg_done = {}
    /\ sg_sheets = <<>>
    /\ sg_again = <<>>
    /\ sg_excel = <<>>
    /\ IdleMerge
    /\ IdleUpdate
    /\ IdleCodec
    /\ IdleApp
    /\ IdleStatus
    /\ IdleReader

\* one call extract_excel_sheet_content(sg_doc)
Segment ==
    /\ "segment" \notin sg_done
    /\ sg_sheets' = extract_excel_sheet_content(sg_doc)
    /\ sg_done' = sg_done \cup {"segment"}
    /\ UNCHANGED <<sg_doc, sg_again, sg_excel>>
    /\ UNCHANGED OthersOfSegment

\* the sheets are written as a Document and the Document is split again
Rejoin ==
    /\ "segment" \in sg_done
    /\ "rejoin" \notin sg_done
    /\ sg_again' = extract_excel_sheet_content(join_sheets(sg_sheets))
    /\ sg_done' = sg_done \cup {"rejoin"}
    /\ UNCHANGED <<sg_doc, sg_sheets, sg_excel>>
    /\ UNCHANGED OthersOfSegment

\* one call markdown_to_excel(sg_doc)
SegmentForExcel ==
    /\ "excel" \notin sg_done
    /\ sg_excel' = markdown_to_excel(sg_doc)
    /\ sg_done' = sg_done \cup {"excel"}
    /\ UNCHANGED <<sg_doc, sg_sheets, sg_again>>
    /\ UNCHANGED OthersOfSegment

NextSegment == Segment \/ Rejoin \/ SegmentForExcel

SpecSegment == InitSegment /\ [][NextSegment]_vars

\* a Document with no sheet heading marker and a pipe in some line
BareTable(doc) == ~Contains(doc, SheetMarker) /\ Contains(doc, "|")

\* C12: a Document without a heading marker and with a pipe-delimited line is
\* one sheet named Sheet1 holding the entire input, for
\* extract_excel_sheet_content and for markdown_to_excel alike, and both give
\* the same sheet name.
C12_SingleTableLeniency ==
    (BareTable(sg_doc) /\ {"segment", "excel"} \subseteq sg_done) =>
        /\ Len(sg_sheets) = 1
        /\ sg_sheets[1].name = "Sheet1"
        /\ sg_sheets[1].content = Strip(sg_doc)
        /\ Len(sg_excel) = 1
        /\ sg_excel[1].name = sg_sheets[1].name

\* the number of lines of a Document that are sheet headings
heading_count(doc) ==
    LET lines == Split(doc, "\n")
    IN  Cardinality({i \in 1..Len(lines) : StartsWith(lines[i], SheetMarker)})

\* the same sheet names in the same order, each with the same content up to
\* surrounding white space
SameSheets(a, b) ==
    /\ Len(a) = Len(b)
    /\ \A k \in 1..Len(a) :
        /\ a[k].name = b[k].name
        /\ Strip(a[k].content) = Strip(b[k].content)

\* C13: for a Document with 1 to 5 sheet headings, the sheets it is split
\* into, written as a Document again and split once more, are the same sheet
\* names in the same order with equivalent content.
C13_SegmenterRoundTrip ==
    (heading_count(sg_doc) \in 1..5 /\ "rejoin" \in sg_done) =>
        SameSheets(sg_again, sg_sheets)

\* every heading line of the Document is followed by a line that is not
\* blank before the next heading
headings_with_content(doc) ==
    LET lines == Split(doc, "\n")
    IN  \A i \in 1..Len(lines) :
            StartsWith(lines[i], SheetMarker) =>
                \E j \in (i + 1)..Len(lines) :
                    /\ ~IsBlank(lines[j])
                    /\ \A m \in (i + 1)..j : ~StartsWith(lines[m], SheetMarker)

\* C14: for a Document with k heading lines, each followed by content that is
\* not blank, extract_excel_sheet_content gives exactly k sheets with k
\* different names: no section replaces an earlier one.
C14_NoSectionLost ==
    (/\ "segment" \in sg_done
     /\ heading_count(sg_doc) >= 1
     /\ headings_with_content(sg_doc)) =>
        /\ Len(sg_sheets) = heading_count(sg_doc)
        /\ \A a, b \in 1..Len(sg_sheets) :
            sg_sheets[a].name = sg_sheets[b].name => a = b

\* some cell of column j of the rows is of type t
column_has(rows, j, t) == \E i \in 1..Len(rows) : rows[i][j].t = t

\* no column of the rows holds a number and a string
unmixed(columns, rows) ==
    \A j \in 1..Len(columns) :
        ~(column_has(rows, j, "num") /\ column_has(rows, j, "str"))

\* C15: cell coercion is all or nothing per column: no column of a frame
\* given by markdown_to_df or written by markdown_to_excel holds numbers and
\* strings together.
C15_ColumnwiseCoercion ==
    /\ (cd_df # NotParsed /\ ~cd_df.raised /\ ~cd_df.error) =>
            unmixed(cd_df.columns, cd_df.rows)
    /\ cd_excel # NotWritten =>
            \A k \in 1..Len(cd_excel) :
                unmixed(cd_excel[k].table.columns, cd_excel[k].table.rows)

\* a text of three lines or more, each written between pipes, the second a
\* separator line
standard_table(text) ==
    LET lines == Split(Strip(text), "\n")
    IN  /\ is_markdown_table(lines)
        /\ \A i \in 1..Len(lines) :
            /\ Len(lines[i]) >= 2
            /\ At(lines[i], 1) = "|"
            /\ At(lines[i], Len(lines[i])) = "|"
            /\ Len(Split(lines[i], "|")) = Len(Split(lines[1], "|"))

\* the frame of a standard table as the parser is to give it: the trimmed
\* header cells as names, a row per data line, string cells trimmed
trimmed_frame(text, columns, rows) ==
    LET lines == Split(Strip(text), "\n")
    IN  /\ columns = header_cells(lines[1])
        /\ Len(rows) = Len(lines) - 2
        /\ \A i \in 1..Len(rows) : \A j \in 1..Len(rows[i]) :
              rows[i][j].t = "str" => rows[i][j].v = Strip(rows[i][j].v)

\* C16: for a standard table markdown_to_df gives the trimmed header cells as
\* column names in order, one row per data line and trimmed cells; the table
\* ID, Name / 1, Alice / 2, Bob gives the columns ID and Name and the rows
\* (1, Alice) and (2, Bob), ID numeric.
C16_StandardTableParsed ==
    (cd_df # NotParsed /\ standard_table(cd_text)) =>
        /\ ~cd_df.raised /\ ~cd_df.error
        /\ trimmed_frame(cd_text, cd_df.columns, cd_df.rows)
        /\ cd_text = IdNameTable =>
            /\ cd_df.columns = <<"ID", "Name">>
            /\ cd_df.rows = << <<Num(1), Str("Alice")>>, <<Num(2), Str("Bob")>> >>

----------------------------------------------------------------------------
(* status.py: get_prefilled_fields_status, and specification SpecStatus:
   one call on two forms of the same length. *)

\* the indices of a set, in order
in_order(S) ==
    [k \in 1..Cardinality(S) |-> CHOOSE i \in S : Cardinality({j \in S : j <= i}) = k]

\* the variant that lists a field as still empty whatever its current value
get_prefilled_fields_status_all_empty(previous_fields, current_fields) ==
    LET asked(i) == previous_fields[i].value = "" /\ previous_fields[i].type = "text"
        empty == in_order({i \in 1..Len(previous_fields) : asked(i)})
    IN  [prefilled_fields |-> <<>>,
         empty_fields |-> [k \in 1..Len(empty) |-> previous_fields[empty[k]]],
         called |-> TRUE]

\* status.py lines 4-25
get_prefilled_fields_status(previous_fields, current_fields) ==
    LET asked(i) == previous_fields[i].value = "" /\ previous_fields[i].type = "text"
        same(i) == previous_fields[i].value = current_fields[i].value
        empty == in_order({i \in 1..Len(previous_fields) : asked(i) /\ same(i)})
        prefilled == in_order({i \in 1..Len(previous_fields) : asked(i) /\ ~same(i)})
    IN  [prefilled_fields |-> [k \in 1..Len(prefilled) |-> current_fields[prefilled[k]]],
         empty_fields |-> [k \in 1..Len(empty) |-> previous_fields[empty[k]]],
         called |-> TRUE]

FieldTypes == {"text", "markdown"}

FieldValues == {"", "a", "b"}

\* forms of n fields; field i has the label "f" and i
FormsOf(n) ==
    {[i \in 1..n |-> [label |-> "f" \o IntStr(i), type |-> ty[i], value |-> va[i]]] :
        ty \in [1..n -> FieldTypes], va \in [1..n -> FieldValues]}

InitStatus ==
    /\ \E n \in 0..MaxFields :
        /\ st_previous \in FormsOf(n)
        /\ \E va \in [1..n -> FieldValues] :
              st_current = [i \in 1..n |-> [st_previous[i] EXCEPT !.value = va[i]]]
    /\ st_status = NoStatus
    /\ IdleMerge
    /\ IdleUpdate
    /\ IdleCodec
    /\ IdleApp
    /\ IdleSegment
    /\ IdleReader

\* one call get_prefilled_fields_status(previous_form, current_form)
GetStatus ==
    /\ ~st_status.called
    /\ st_status' = get_prefilled_fields_status(st_previous, st_current)
    /\ UNCHANGED <<st_previous, st_current>>
    /\ UNCHANGED OthersOfStatus

NextStatus == GetStatus

SpecStatus == InitStatus /\ [][NextStatus]_vars

\* the labels of a list of fields
labels(fields) == {fields[k].label : k \in 1..Len(fields)}

\* C17: over two forms of equal length, a text field whose previous value
\* was empty is listed as prefilled exactly when the current value at its
\* index is not empty, and as still empty exactly when that value is empty
\* too; it is in exactly one list, once, and a field that is not a text field
\* with an empty previous value is in neither.
C17_SimpleFieldDiff ==
    st_status.called =>
        /\ \A i \in 1..Len(st_previous) :
            LET l == st_previous[i].label
                asked == st_previous[i].value = "" /\ st_previous[i].type = "text"
            IN  /\ l \in labels(st_status.prefilled_fields) <=>
                        (asked /\ st_current[i].value # "")
                /\ l \in labels(st_status.empty_fields) <=>
                        (asked /\ st_current[i].value = "")
        /\ Len(st_status.prefilled_fields) + Len(st_status.empty_fields)
              = Cardinality(labels(st_status.prefilled_fields)
                            \cup labels(st_status.empty_fields))
        /\ \A k \in 1..Len(st_status.prefilled_fields) :
              st_status.prefilled_fields[k] \in {st_current[i] : i \in 1..Len(st_current)}

C17_Witness ==
    /\ st_status.called
    /\ Len(st_status.prefilled_fields) = 1
    /\ Len(st_status.empty_fields) = 1
    /\ \E i \in 1..Len(st_previous) : st_previous[i].value # ""

\* C18: update_draft_form takes the new content from the form tags of the
\* message: for a message without a <form>...</form> block the markdown field
\* of the draft form, and the form, stay as they were, also when the text of
\* the message holds a markdown table.
C18_NoFormBlockNoUpdate ==
    (ud_edits > 0 /\ ~form_match(ud_message).found) =>
        /\ DocAfter = DocBefore
        /\ ud_form = ud_before

\* a line of pipes, colons, hyphens and white space only, with two hyphens in
\* a row or a colon next to a hyphen
separator_row(line) ==
    /\ \A i \in 1..Len(line) : Contains("|:-", At(line, i)) \/ IsSpace(At(line, i))
    /\ Contains(line, "--") \/ Contains(line, ":-") \/ Contains(line, "-:")

\* a string cell that is a cell of a separator row
separator_cell(c) ==
    /\ c.t = "str"
    /\ Strip(c.v) # ""
    /\ \A i \in 1..Len(Strip(c.v)) : Contains(":-", At(Strip(c.v), i))

\* C19: whenever the second line of the table text is a separator row, the
\* table is read as a standard table: markdown_to_df gives a frame none of
\* whose cells is a cell of the separator row, and a text of the header and
\* the separator alone gives no data row; separators of two hyphens count.
C19_SeparatorDetected ==
    LET lines == Split(Strip(cd_text), "\n")
    IN  (/\ cd_df # NotParsed /\ ~cd_df.raised /\ ~cd_df.error
         /\ Len(lines) >= 2 /\ separator_row(lines[2])) =>
            /\ \A i \in 1..Len(cd_df.rows) : \A j \in 1..Len(cd_df.rows[i]) :
                  ~separator_cell(cd_df.rows[i][j])
            /\ Len(lines) = 2 => cd_df.rows = <<>>

\* a table whose lines hold pipes between the cells and none at either end
open_table(text) ==
    LET lines == Split(Strip(text), "\n")
    IN  /\ Len(lines) >= 2
        /\ \A i \in 1..Len(lines) :
            /\ Contains(lines[i], "|")
            /\ At(Strip(lines[i]), 1) # "|"
            /\ At(Strip(lines[i]), Len(Strip(lines[i]))) # "|"

\* C20: boundary cells are dropped only when they come from a leading and a
\* trailing pipe: for a table written as A | B | C markdown_to_df keeps the
\* first and the last column, and the frame has as many columns as the header
\* line has cells.
C20_BoundaryCellsKept ==
    (cd_df # NotParsed /\ ~cd_df.raised /\ ~cd_df.error /\ open_table(cd_text)) =>
        LET header == header_cells(Split(Strip(cd_text), "\n")[1])
        IN  /\ Len(cd_df.columns) = Len(header)
            /\ Strip(cd_df.columns[1]) = header[1]
            /\ Strip(cd_df.columns[Len(cd_df.columns)]) = header[Len(header)]

\* the text is a standard table whose first extraction fails, so that the
\* manual extraction names its columns
manual_case(text) ==
    LET lines == Split(Strip(text), "\n")
    IN  /\ Contains(text, "|")
        /\ is_markdown_table(lines)
        /\ first_attempt_failed(first_attempt(text))
        /\ ~data_frame(lines).err

\* C21: when the first extraction fails, header cell i of line 0 names data
\* column i of the frame markdown_to_df gives, surplus header names dropped;
\* and when the header has as many cells as the data has columns, the frame
\* is a table of the lines after the separator, not an error.
C21_ManualFallbackNames ==
    (cd_df # NotParsed /\ ~cd_df.raised /\ manual_case(cd_text)) =>
        LET lines == Split(Strip(cd_text), "\n")
            header == header_cells(lines[1])
        IN  /\ ~cd_df.error =>
                \A i \in 1..Len(cd_df.columns) :
                    i <= Len(header) /\ cd_df.columns[i] = header[i]
            /\ Len(header) = Len(data_frame(lines).columns) =>
                /\ ~cd_df.error
                /\ Len(cd_df.rows) = Len(lines) - 2

\* the lines of the Document that are headings, in order
heading_lines(doc) ==
    LET lines == Split(doc, "\n")
    IN  in_order({i \in 1..Len(lines) : StartsWith(lines[i], SheetMarker)})

\* heading k of the Document has no name and a section that is not blank
unnamed_with_content(doc, k) ==
    LET lines == Split(doc, "\n")
        at == heading_lines(doc)
        last == IF k = Len(at) THEN Len(lines) ELSE at[k + 1] - 1
    IN  /\ Strip(Replace(lines[at[k]], SheetMarker, "")) = ""
        /\ \E j \in (at[k] + 1)..last : ~IsBlank(lines[j])

\* C22: a heading without a name is named Sheet{n}, n the count of the
\* sheets segmented so far with the current one: in a Document that starts
\* with a heading and gives no sheet a name of that form itself, the sheets
\* named Sheet... in the result are Sheet{k} for the headings k without a name
\* whose section is not blank, also when an earlier section was dropped.
C22_DefaultSheetName ==
    (/\ "segment" \in sg_done
     /\ StartsWith(sg_doc, SheetMarker)
     /\ ~Contains(sg_doc, "Sheet2")) =>
        {sg_sheets[k].name : k \in {j \in 1..Len(sg_sheets) : StartsWith(sg_sheets[j].name, "Sheet")}}
            = {"Sheet" \o IntStr(k) :
                  k \in {j \in 1..heading_count(sg_doc) : unnamed_with_content(sg_doc, j)}}

\* the fenced blocks of the answer of the completion call
AnswerBlocks == code_matches_from(Strip(mt_completion.content), 1)

\* C23: the fence markers are stripped from the answer before validation, and
\* of several fenced blocks a longest one is validated: merge_tables returns
\* its stripped content when that is a valid table and the existing table
\* when it is not.
C23_LongestFencedBlock ==
    (/\ mt_pc = "done" /\ mt_completion.kind = "text"
     /\ ~blank_input(mt_existing, mt_new)
     /\ Len(AnswerBlocks) > 0) =>
        \E k \in 1..Len(AnswerBlocks) :
            /\ \A j \in 1..Len(AnswerBlocks) : Len(AnswerBlocks[j]) <= Len(AnswerBlocks[k])
            /\ mt_result.ret = IF valid_table(Strip(AnswerBlocks[k]))
                               THEN Strip(AnswerBlocks[k]) ELSE mt_existing
            /\ mt_result.ret # mt_existing => ~Contains(mt_result.ret, Fence)

\* the second of two fenced blocks is the longer one, and it was returned
C23_Witness ==
    /\ mt_pc = "done" /\ mt_completion.kind = "text"
    /\ Len(AnswerBlocks) = 2
    /\ Len(AnswerBlocks[1]) < Len(AnswerBlocks[2])
    /\ mt_result.ret = Strip(AnswerBlocks[2])
    /\ mt_result.ret # mt_existing

\* the merge handler of the last run stored a merged table merge_tables
\* accepted
MergeAccepted ==
    /\ merge_log.clicked
    /\ merge_log.completion # TimedOut
    /\ merge_log.merged.log = "none"
    /\ "success" \in notice

\* C24: an accepted merge changes the first sheet only: every other sheet the
\* Document had before the merge handler ran is a sheet of the markdown field
\* after it, under its name and with its content.
C24_OtherSheetsKept ==
    MergeAccepted =>
        LET old == extract_excel_sheet_content(merge_log.before)
            new == extract_excel_sheet_content(markdown_value(session_state.draft_form))
        IN  \A i \in 2..Len(old) : \E j \in 1..Len(new) :
                /\ new[j].name = old[i].name
                /\ Strip(new[j].content) = Strip(old[i].content)

\* C25: an uploaded image is processed at most once: over the reruns in which
\* the same image stays in the image uploader, the rerun after a merge
\* included, the OCR extraction runs once at most.
C25_ImageProcessedOnce == ocr_runs <= 1

\* the previews the image handler writes when it has no table
Placeholders == {CannotConvert, NoTextExtracted, OcrFailed, FailureText}

\* C26: merge gating: whenever ocr_can_convert is true, ocr_table_preview is
\* the table the convertibility check returned, not empty; and merge_tables
\* is never called with a placeholder or an error text as the incoming table.
C26_MergeGating ==
    /\ session_state.ocr_can_convert =>
          /\ session_state.ocr_table_preview = PreviewTable
          /\ session_state.ocr_table_preview \notin Placeholders
    /\ merge_log.clicked => merge_log.incoming \notin Placeholders

\* C27: once a spreadsheet is loaded, the markdown field of the draft form
\* holds a pipe in every reachable state, whatever chat updates, merges and
\* restores follow.
C27_FieldKeepsPipe ==
    session_state.draft_form # NoForm =>
        Contains(markdown_value(session_state.draft_form), "|")

----------------------------------------------------------------------------
(* Specification SpecReader: threads calling get_reader (doc_handlers/ocr.py) *)

\* the second check is skipped: every thread that gets the lock constructs
double_check_skipped(value) == FALSE

\* ocr.py 38: if _reader is not None, under the lock
double_check(value) == value # None

\* ocr.py 69-76: the instance the k-th easyocr.Reader(...) call makes
Instance(k) == k

InitReader ==
    /\ FreshReader
    /\ IdleMerge
    /\ IdleUpdate
    /\ IdleCodec
    /\ IdleApp
    /\ IdleSegment
    /\ IdleStatus

\* what a return of the value v by thread t leaves
Returns(t, v) ==
    /\ rd_pc' = [rd_pc EXCEPT ![t] = "idle"]
    /\ rd_ret' = [rd_ret EXCEPT ![t] = {v}]
    /\ rd_returned' = IF v = None THEN rd_returned ELSE rd_returned \cup {v}

\* ocr.py 19: a thread calls get_reader()
Call(t) ==
    /\ rd_pc[t] = "idle"
    /\ rd_calls < MaxCalls
    /\ rd_calls' = rd_calls + 1
    /\ rd_pc' = [rd_pc EXCEPT ![t] = "first_check"]
    /\ rd_ret' = [rd_ret EXCEPT ![t] = {}]
    /\ rd_failed' = [rd_failed EXCEPT ![t] = FALSE]
    /\ UNCHANGED <<reader, reader_lock, rd_built, rd_returned, rd_unlocked>>
    /\ UNCHANGED OthersOfReader

\* ocr.py 32-33: the check without the lock
FirstCheck(t) ==
    /\ rd_pc[t] = "first_check"
    /\ IF reader # None
       THEN Returns(t, reader)
       ELSE /\ rd_pc' = [rd_pc EXCEPT ![t] = "acquire"]
            /\ UNCHANGED <<rd_ret, rd_returned>>
    /\ UNCHANGED <<reader, reader_lock, rd_failed, rd_built, rd_calls, rd_unlocked>>
    /\ UNCHANGED OthersOfReader

\* ocr.py 36: with _reader_lock, entered when no thread holds the lock
Acquire(t) ==
    /\ rd_pc[t] = "acquire"
    /\ reader_lock = Unlocked
    /\ reader_lock' = t
    /\ rd_pc' = [rd_pc EXCEPT ![t] = "second_check"]
    /\ UNCHANGED <<reader, rd_ret, rd_failed, rd_built, rd_calls, rd_returned,
                   rd_unlocked>>
    /\ UNCHANGED OthersOfReader

\* ocr.py 38-39: the check under the lock; the return leaves the with block
SecondCheck(t) ==
    /\ rd_pc[t] = "second_check"
    /\ IF double_check(reader)
       THEN /\ Returns(t, reader)
            /\ reader_lock' = Unlocked
       ELSE /\ rd_pc' = [rd_pc EXCEPT ![t] = "construct"]
            /\ UNCHANGED <<reader_lock, rd_ret, rd_returned>>
    /\ UNCHANGED <<reader, rd_failed, rd_built, rd_calls, rd_unlocked>>
    /\ UNCHANGED OthersOfReader

\* ocr.py 42-82: the try block; easyocr.Reader(...) gives an instance that is
\* stored in _reader, or an exception is caught and None is returned, which
\* leaves the with block
Construct(t) ==
    /\ rd_pc[t] = "construct"
    /\ rd_unlocked' = (rd_unlocked \/ reader_lock # t)
    /\ \E raised \in BOOLEAN :
          IF raised
          THEN /\ Returns(t, None)
               /\ rd_failed' = [rd_failed EXCEPT ![t] = TRUE]
               /\ reader_lock' = IF reader_lock = t THEN Unlocked ELSE reader_lock
               /\ UNCHANGED <<reader, rd_built>>
          ELSE /\ reader' = Instance(rd_built + 1)
               /\ rd_built' = rd_built + 1
               /\ rd_pc' = [rd_pc EXCEPT ![t] = "release"]
               /\ UNCHANGED <<reader_lock, rd_ret, rd_failed, rd_returned>>
    /\ UNCHANGED rd_calls
    /\ UNCHANGED OthersOfReader

\* ocr.py 36-82: the end of the with block
Release(t) ==
    /\ rd_pc[t] = "release"
    /\ reader_lock' = IF reader_lock = t THEN Unlocked ELSE reader_lock
    /\ rd_pc' = [rd_pc EXCEPT ![t] = "return"]
    /\ UNCHANGED <<reader, rd_ret, rd_failed, rd_built, rd_calls, rd_returned,
                   rd_unlocked>>
    /\ UNCHANGED OthersOfReader

\* ocr.py 83: return _reader, outside the with block
Return(t) ==
    /\ rd_pc[t] = "return"
    /\ Returns(t, reader)
    /\ UNCHANGED <<reader, reader_lock, rd_failed, rd_built, rd_calls, rd_unlocked>>
    /\ UNCHANGED OthersOfReader

NextReader ==
    \E t \in Threads :
        \/ Call(t)
        \/ FirstCheck(t)
        \/ Acquire(t)
        \/ SecondCheck(t)
        \/ Construct(t)
        \/ Release(t)
        \/ Return(t)

SpecReader == InitReader /\ [][NextReader]_vars

\* C28: whatever the interleaving of the calls, at most one instance is
\* constructed, a construction runs only in the thread that holds the lock,
\* all calls that return an instance return the same one, a call returns None
\* only when its own construction failed, and a failure leaves _reader unset
\* (so that the next call constructs again).
C28_ReaderSingleton ==
    /\ rd_built <= 1
    /\ ~rd_unlocked
    /\ \A t \in Threads : rd_pc[t] \in {"construct", "release"} => reader_lock = t
    /\ Cardinality(rd_returned) <= 1
    /\ \A t \in Threads : rd_ret[t] = {None} => rd_failed[t]
    /\ (reader = None) <=> (rd_built = 0)

\* the call of one thread failed and returned None, and the call of another
\* thread constructed the instance afterwards and returned it
C28_Witness ==
    \E t \in Threads, u \in Threads :
        /\ t # u
        /\ rd_ret[t] = {None}
        /\ rd_built = 1
        /\ rd_ret[u] = {reader}
        /\ reader # None

\* the draft form differs from what parse_excel_form makes of the workbook
EditedSince(form, uploader) ==
    /\ uploader.given
    /\ form # NoForm
    /\ form # parse_excel_form(uploader.workbook)

\* C29: a run that starts with main_form_path set (any run but the one after
\* Start Over) does not parse the workbook in the uploader again: a draft form
\* that differs from the parsed workbook is not replaced by it.
C29_ParsedWhileUnset ==
    [][(/\ session_state.main_form_path # ""
        /\ session_state'.main_form_path # ""
        /\ EditedSince(session_state.draft_form, main_form_uploader'))
       => EditedSince(session_state'.draft_form, main_form_uploader')]_vars

\* the workbook is still in the uploader and the draft form holds an edit
\* made before the last run, a merge click that changed nothing
C29_Witness ==
    /\ session_state.main_form_path # ""
    /\ EditedSince(session_state.draft_form, main_form_uploader)
    /\ MergeTimedOut
    /\ markdown_value(session_state.draft_form) = merge_log.before

\* the merge handler of the last run changed the markdown field
MergeModified ==
    merge_log.clicked /\ markdown_value(session_state.draft_form) # merge_log.before

\* C30: the snapshot the check after a merge restores from holds the content
\* the Document had before the merge handler modified it: a restored draft
\* form equals the Document before the click, and after a modification
\* previous_draft_form still holds the content from before it.
C30_RollbackSnapshot ==
    /\ "restored" \in notice =>
          markdown_value(session_state.draft_form) = merge_log.before
    /\ MergeModified =>
          markdown_value(session_state.previous_draft_form) = merge_log.before

====
